---------------------------- MODULE Spec2Model ----------------------------
(***************************************************************************)
(* TabBrain: URL normalisation, duplicate / near-duplicate detection for   *)
(* tabs and bookmarks, token-budget batching and the retry helper.         *)
(*                                                                         *)
(* Strings that are URLs are modelled by their components: a string is a   *)
(* record [scheme, host, path, query, hash]; the text it stands for is     *)
(*   scheme "://" host[1] "." host[2] ... "/" path[1] "/" path[2] ...      *)
(*   "?" k1 "=" v1 "&" ... "#" hash                                        *)
(* with every empty part left out.  A string without scheme is a string    *)
(* "new URL" rejects.  path <<>> is the empty path, <<"">> is "/",         *)
(* <<"x","">> is "/x/".                                                    *)
(***************************************************************************)
EXTENDS Integers, Sequences, FiniteSets

VARIABLES
    tabs,          \* TabInfo[] handed to the tab finders
    bookmarks,     \* BookmarkNode[] handed to findDuplicateBookmarks
    phase,         \* which finder has run on the input: "idle", "exact", "near", "bookmarks"
    groups,        \* DuplicateGroup[] / BookmarkDuplicateGroup[] returned by that finder
    threshold,     \* similarityThreshold of the near-duplicate run, <<num, den>>
    removed,       \* TRUE once getDuplicateTabsToRemove has run on groups
    toRemove,      \* number[] returned by getDuplicateTabsToRemove
    items,             \* the { url, title } items handed to splitIntoBatches
    maxContextTokens,  \* its second argument
    reservedTokens,    \* its third argument
    split,             \* TRUE once splitIntoBatches has returned
    batches,           \* the T[][] it returned
    retryOptions,  \* opts of retry: the options of the call merged with the defaults
    pc,            \* where the retry call is: "start", "awaitFn", "sleeping", "returned", "thrown"
    attempt,       \* the loop counter of retry
    lastError,     \* the local lastError of retry
    fnCalls,       \* how often fn has been invoked
    raised,        \* the errors fn has rejected with, in order
    onRetryCalls,  \* the <<error, attempt>> arguments onRetry was invoked with
    sleeps,        \* the delays retry has slept for, in order
    outcome,       \* the value retry resolved with or the error it threw
    compared,      \* <<>>, or <<r>> for the value r areSimilarUrls returned on the first two tabs
    batchSize,     \* <<>>, or <<r>> for the value r calculateBatchSize returned
    nUrl,          \* the url argument of normalizeUrl
    nOptions,      \* its options argument
    nCalls,        \* how often normalizeUrl has been applied: 0, 1 or 2
    normalized,    \* normalizeUrl(nUrl, nOptions) once it has been called
    renormalized,  \* normalizeUrl(normalized, nOptions) once it has been called
    strA,          \* the arguments of levenshteinDistance
    strB,
    distance,      \* <<>>, or <<r>> for the value r levenshteinDistance returned
    setA,          \* the arguments of jaccardSimilarity
    setB,
    similarity,    \* <<>>, or <<r>> for the value r jaccardSimilarity returned
    tkText,        \* the argument of tokenize
    tkTokens,      \* <<>>, or <<r>> for the string[] r tokenize returned
    bmQuery,       \* the arguments of findBestMatch: query, candidates, minSimilarity
    bmCandidates,
    minSimilarity,
    bestMatch,     \* <<>>, or <<r>> for the value r findBestMatch returned
    duplicates,    \* DuplicateFinder: the groups of the useDuplicateTabs hook
    selectedIds,   \* DuplicateFinder: useState selectedIds
    showConfirm,   \* DuplicateFinder: useState showConfirm
    closing,       \* DuplicateFinder: useState closing
    closeCalls,    \* the id sets closeDuplicates has been called with, in order
    stored,        \* chrome.storage.local: the value under 'windowTopics', <<>> when unset
    calls,         \* the two topic calls in flight: [op, windowId, topic] each
    callPc,        \* where each call is: "read", "write" or "done"
    callTopics     \* the local topics of each call once its read has resolved

dupVars == <<tabs, bookmarks, phase, groups, threshold, removed, toRemove, compared>>

batchVars == <<items, maxContextTokens, reservedTokens, split, batches, batchSize>>

normVars == <<nUrl, nOptions, nCalls, normalized, renormalized>>

simVars == <<strA, strB, distance, setA, setB, similarity>>

matchVars == <<tkText, tkTokens, bmQuery, bmCandidates, minSimilarity, bestMatch>>

pageVars == <<duplicates, selectedIds, showConfirm, closing, closeCalls>>

storeVars == <<stored, calls, callPc, callTopics>>

retryVars == <<retryOptions, pc, attempt, lastError, fnCalls, raised, onRetryCalls, sleeps, outcome>>

vars == <<dupVars, batchVars, retryVars, normVars, simVars, matchVars, pageVars, storeVars>>

(***************************************************************************)
(* Strings and the URL parser                                              *)
(***************************************************************************)

\* a URL-shaped string scheme://userinfo@host:port/path?query#hash; "" is a
\* part that is left out
StrAuth(scheme, userinfo, host, port, path, query, hash) ==
    [scheme |-> scheme, userinfo |-> userinfo, host |-> host, port |-> port,
     path |-> path, query |-> query, hash |-> hash]

\* a URL-shaped string without credentials and port
Str(scheme, host, path, query, hash) == StrAuth(scheme, "", host, "", path, query, hash)

\* String.prototype.toLowerCase on the tokens the model uses
LowerTable ==
    [x \in {"A", "B", "WWW", "COM", "UTM_SOURCE", "X", "Example"} |->
        CASE x = "A" -> "a"
          [] x = "B" -> "b"
          [] x = "Example" -> "example"
          [] x = "WWW" -> "www"
          [] x = "COM" -> "com"
          [] x = "UTM_SOURCE" -> "utm_source"
          [] x = "X" -> "x"]

toLowerCase(s) == IF s \in DOMAIN LowerTable THEN LowerTable[s] ELSE s

LowerHost(host) == [i \in 1..Len(host) |-> toLowerCase(host[i])]

\* schemes whose host the URL parser lower-cases and whose empty path is "/"
SpecialSchemes == {"http", "https", "file"}

\* a port above 65535
InvalidPorts == {"99999"}

\* the port the URL parser leaves out of the parsed URL
DefaultPort(scheme) ==
    CASE scheme = "http" -> "80"
      [] scheme = "https" -> "443"
      [] OTHER -> ""

\* new URL(url): ok = FALSE stands for the TypeError it throws
ParseURL(url) ==
    IF \/ url.scheme = ""
       \/ url.scheme \in {"http", "https"} /\ url.host = <<>>
       \/ url.port \in InvalidPorts
    THEN [ok |-> FALSE]
    ELSE [ok       |-> TRUE,
          protocol |-> url.scheme,
          username |-> url.userinfo,
          port     |-> IF url.port = DefaultPort(url.scheme) THEN "" ELSE url.port,
          hostname |-> IF url.scheme \in SpecialSchemes THEN LowerHost(url.host) ELSE url.host,
          pathname |-> IF url.scheme \in SpecialSchemes /\ url.path = <<>>
                       THEN <<"">> ELSE url.path,
          searchParams |-> url.query,
          hash     |-> url.hash]

\* hostname.replace(/^www\./, '')
StripWww(hostname) ==
    IF Len(hostname) >= 2 /\ hostname[1] = "www" THEN Tail(hostname) ELSE hostname

InternalProtocols == {"chrome", "chrome-extension", "edge", "about", "file"}

isInternalUrl(url) ==
    LET parsed == ParseURL(url)
    IN  IF parsed.ok THEN parsed.protocol \in InternalProtocols ELSE FALSE

getDomain(url) ==
    LET parsed == ParseURL(url)
    IN  IF parsed.ok
        THEN Str("", LowerHost(StripWww(parsed.hostname)), <<>>, <<>>, "")
        ELSE url


(***************************************************************************)
(* normalizeUrl                                                            *)
(***************************************************************************)

TRACKING_PARAMS ==
    {"utm_source", "utm_medium", "utm_campaign", "utm_term", "utm_content",
     "utm_id", "utm_source_platform", "utm_creative_format", "utm_marketing_tactic",
     "fbclid", "fb_action_ids", "fb_action_types", "fb_source", "fb_ref",
     "twclid", "msclkid", "gclid", "gclsrc", "dclid", "mc_cid", "mc_eid",
     "hsa_acc", "hsa_cam", "hsa_grp", "hsa_ad", "hsa_src", "hsa_tgt",
     "hsa_kw", "hsa_mt", "hsa_net", "hsa_ver",
     "ref", "ref_src", "ref_url", "source", "referrer",
     "affiliate", "aff_id", "campaign_id",
     "sessionid", "session_id", "clickid", "click_id",
     "trk", "trkid", "share", "si", "s", "feature"}

\* the order String.prototype.localeCompare puts the query keys of the model in
CollationOrder == <<"a", "b", "q", "utm_source", "UTM_SOURCE">>

CollationRank(k) == CHOOSE i \in 1..Len(CollationOrder) : CollationOrder[i] = k

\* Array.prototype.sort(cmp), a stable sort, for a comparator that compares a
\* number of each element: key[i] is the number of s[i], cmp(s[i], s[j]) is
\* key[i] - key[j].  The result is given as the sequence of the indices into s.
SortedIndices(key) ==
    LET Insert(sorted, x) ==
            LET n == Cardinality({j \in 1..Len(sorted) : key[sorted[j]] <= key[x]})
            IN  SubSeq(sorted, 1, n) \o <<x>> \o SubSeq(sorted, n + 1, Len(sorted))
        f[i \in 0..Len(key)] == IF i = 0 THEN <<>> ELSE Insert(f[i - 1], i)
    IN  f[Len(key)]

StableSort(s, key) ==
    LET idx == SortedIndices(key) IN [i \in 1..Len(s) |-> s[idx[i]]]

\* entries.sort((a, b) => a[0].localeCompare(b[0]))
SortEntries(entries) ==
    StableSort(entries, [i \in 1..Len(entries) |-> CollationRank(entries[i][1])])

\* URLSearchParams.set(key, value): the first pair with the key takes the value,
\* the other pairs with the key go; a new key is appended
ParamsSet(params, key, value) ==
    IF \E i \in 1..Len(params) : params[i][1] = key
    THEN LET first == CHOOSE i \in 1..Len(params) :
                          /\ params[i][1] = key
                          /\ \A j \in 1..(i - 1) : params[j][1] # key
             kept  == [i \in 1..Len(params) |->
                          IF i = first THEN <<key, value>> ELSE params[i]]
             idx   == {i \in 1..Len(params) : i = first \/ params[i][1] # key}
             Nth[n \in 0..Len(params)] ==
                 IF n = 0 THEN 0
                 ELSE CHOOSE i \in idx : i > Nth[n - 1] /\ \A j \in idx : j > Nth[n - 1] => i <= j
         IN  [n \in 1..Cardinality(idx) |-> kept[Nth[n]]]
    ELSE Append(params, <<key, value>>)

\* lines 73-89: the search string normalizeUrl assigns to parsed.search
NormalizedSearch(searchParams, opts) ==
    LET entries == IF opts.sortParams THEN SortEntries(searchParams)
                   ELSE searchParams
        params[i \in 0..Len(entries)] ==
            IF i = 0 THEN <<>>
            ELSE IF opts.stripTracking /\ toLowerCase(entries[i][1]) \in TRACKING_PARAMS
                 THEN params[i - 1]
                 ELSE ParamsSet(params[i - 1], entries[i][1], entries[i][2])
    IN  params[Len(entries)]

\* lines 102-105: normalized.endsWith('/') && normalized.length > 1, then slice(0, -1);
\* every host label and every "/" of the path is at least one character
StripTrailingSlash(prefixLen, hostname, pathname) ==
    IF /\ Len(pathname) > 0
       /\ pathname[Len(pathname)] = ""
       /\ prefixLen + Len(hostname) + Len(pathname) > 1
    THEN SubSeq(pathname, 1, Len(pathname) - 1)
    ELSE pathname

\* DEFAULT_OPTIONS with stripProtocol: false
DEFAULT_OPTIONS_KeepProtocol ==
    [stripTracking |-> TRUE, stripWww |-> TRUE, stripProtocol |-> FALSE,
     stripTrailingSlash |-> TRUE, stripHash |-> TRUE, lowercase |-> TRUE,
     sortParams |-> TRUE]

DEFAULT_OPTIONS ==
    [stripTracking |-> TRUE, stripWww |-> TRUE, stripProtocol |-> TRUE,
     stripTrailingSlash |-> TRUE, stripHash |-> TRUE, lowercase |-> TRUE,
     sortParams |-> TRUE]

\* ProtocolPrefix that keeps the protocol of the input
ProtocolPrefix_Kept(protocol, opts) == IF ~opts.stripProtocol THEN protocol ELSE ""

\* lines 92-94: if (!opts.stripProtocol) normalized += 'https://'
ProtocolPrefix(protocol, opts) == IF ~opts.stripProtocol THEN "https" ELSE ""

\* IsHttp without the test of line 55: every protocol is let through
IsHttp_Any(protocol) == TRUE

\* line 55: ['http:', 'https:'].includes(parsed.protocol)
IsHttp(protocol) == protocol \in {"http", "https"}

normalizeUrl(url, options) ==
    LET opts   == [o \in DOMAIN DEFAULT_OPTIONS |->
                      IF o \in DOMAIN options THEN options[o] ELSE DEFAULT_OPTIONS[o]]
        parsed == ParseURL(url)
    IN  IF ~parsed.ok THEN url
        ELSE IF ~IsHttp(parsed.protocol) THEN url
        ELSE
          LET h1       == IF opts.stripWww THEN StripWww(parsed.hostname) ELSE parsed.hostname
              hostname == IF opts.lowercase THEN LowerHost(h1) ELSE h1
              search   == IF opts.stripTracking \/ opts.sortParams
                          THEN NormalizedSearch(parsed.searchParams, opts)
                          ELSE parsed.searchParams
              prefix   == ProtocolPrefix(parsed.protocol, opts)
              path     == IF opts.stripTrailingSlash
                          THEN StripTrailingSlash(IF prefix = "" THEN 0 ELSE 8,
                                                  hostname, parsed.pathname)
                          ELSE parsed.pathname
              hash     == IF ~opts.stripHash THEN parsed.hash ELSE ""
          IN  Str(prefix, hostname, path, search, hash)

NoOptions == [o \in {} |-> TRUE]

(***************************************************************************)
(* duplicate-finder                                                        *)
(***************************************************************************)

\* a Map<string, T[]> in insertion order: a sequence of [key, val] entries
MapHas(m, k) == \E i \in 1..Len(m) : m[i].key = k

\* MapPush with groups.set(key, [x]) for a key that is there too
MapPush_Overwrite(m, k, x) ==
    IF MapHas(m, k)
    THEN [i \in 1..Len(m) |-> IF m[i].key = k THEN [key |-> k, val |-> <<x>>] ELSE m[i]]
    ELSE Append(m, [key |-> k, val |-> <<x>>])

\* existing.push(x) when the key is there, groups.set(key, [x]) when it is not
MapPush(m, k, x) ==
    IF MapHas(m, k)
    THEN [i \in 1..Len(m) |->
             IF m[i].key = k THEN [key |-> k, val |-> Append(m[i].val, x)] ELSE m[i]]
    ELSE Append(m, [key |-> k, val |-> <<x>>])

\* HasDuplicates with tabs.length > 0
HasDuplicates_NonEmpty(entry) == Len(entry.val) > 0

\* .filter(([, tabs]) => tabs.length > 1)
HasDuplicates(entry) == Len(entry.val) > 1

\* SortTabs without the sort
SortTabs_Unsorted(ts) == ts

\* tabs.sort((a, b) => a.id - b.id)
SortTabs(ts) == StableSort(ts, [i \in 1..Len(ts) |-> ts[i].id])

\* the loop of findDuplicateTabs over the tabs
TabGroupsMap(ts) ==
    LET m[i \in 0..Len(ts)] ==
            IF i = 0 THEN <<>>
            ELSE IF isInternalUrl(ts[i].url) THEN m[i - 1]
                 ELSE MapPush(m[i - 1], normalizeUrl(ts[i].url, NoOptions), ts[i])
    IN  m[Len(ts)]

findDuplicateTabs(ts) ==
    LET kept == SelectSeq(TabGroupsMap(ts), HasDuplicates)
    IN  [i \in 1..Len(kept) |->
            [normalizedUrl |-> kept[i].key, tabs |-> SortTabs(kept[i].val)]]

\* pathname.split('/').filter(Boolean)
PathSegments(pathname) == SelectSeq(pathname, LAMBDA seg : seg # "")

\* RatioAtLeast with > for >=
RatioAtLeast_Strict(matches, maxLen, th) == matches * th[2] > th[1] * maxLen

\* matches / maxLen >= threshold, the threshold being the fraction th[1] / th[2]
RatioAtLeast(matches, maxLen, th) == matches * th[2] >= th[1] * maxLen

\* SimilarOnThrow with a catch branch that returns true
SimilarOnThrow_True == TRUE

\* lines 326-328: catch { return false }
SimilarOnThrow == FALSE

areSimilarUrls(url1, url2, th) ==
    LET parsed1 == ParseURL(url1)
        parsed2 == ParseURL(url2)
    IN  IF ~parsed1.ok \/ ~parsed2.ok THEN SimilarOnThrow
        ELSE IF parsed1.hostname # parsed2.hostname THEN FALSE
        ELSE
          LET path1   == PathSegments(parsed1.pathname)
              path2   == PathSegments(parsed2.pathname)
              diff    == Len(path1) - Len(path2)
              maxLen  == IF Len(path1) >= Len(path2) THEN Len(path1) ELSE Len(path2)
              matches == Cardinality({i \in 1..maxLen :
                             /\ i <= Len(path1)
                             /\ i <= Len(path2)
                             /\ path1[i] = path2[i]})
          IN  IF (IF diff >= 0 THEN diff ELSE -diff) > 1 THEN FALSE
              ELSE IF maxLen = 0 THEN TRUE
              ELSE RatioAtLeast(matches, maxLen, th)

\* the loop of findNearDuplicateTabs that groups the tabs by domain
DomainGroupsMap(ts) ==
    LET m[i \in 0..Len(ts)] ==
            IF i = 0 THEN <<>>
            ELSE IF isInternalUrl(ts[i].url) THEN m[i - 1]
                 ELSE MapPush(m[i - 1], getDomain(ts[i].url), ts[i])
    IN  m[Len(ts)]

\* lines 200-215: the tab joins the first cluster whose first tab is similar
\* AddToCluster that joins the last similar cluster instead of the first
AddToCluster_Last(clusters, tab, th) ==
    LET similar == {c \in 1..Len(clusters) :
                        areSimilarUrls(tab.url, clusters[c][1].url, th)}
    IN  IF similar = {} THEN Append(clusters, <<tab>>)
        ELSE LET c == CHOOSE c \in similar : \A d \in similar : c >= d
             IN  [clusters EXCEPT ![c] = Append(@, tab)]

AddToCluster(clusters, tab, th) ==
    LET similar == {c \in 1..Len(clusters) :
                        areSimilarUrls(tab.url, clusters[c][1].url, th)}
    IN  IF similar = {} THEN Append(clusters, <<tab>>)
        ELSE LET c == CHOOSE c \in similar : \A d \in similar : c <= d
             IN  [clusters EXCEPT ![c] = Append(@, tab)]

ClustersOf(domainTabs, th) ==
    LET cl[i \in 0..Len(domainTabs)] ==
            IF i = 0 THEN <<>> ELSE AddToCluster(cl[i - 1], domainTabs[i], th)
    IN  cl[Len(domainTabs)]

\* if (cluster.length > 1)
IsNearGroup(cluster) == Len(cluster) > 1

\* lines 195-225 for one domain
NearGroupsOfDomain(domainTabs, th) ==
    IF Len(domainTabs) < 2 THEN <<>>
    ELSE LET kept == SelectSeq(ClustersOf(domainTabs, th), IsNearGroup)
         IN  [i \in 1..Len(kept) |->
                 [normalizedUrl |-> normalizeUrl(kept[i][1].url, NoOptions),
                  tabs |-> kept[i]]]

findNearDuplicateTabs(ts, th) ==
    LET domainGroups == DomainGroupsMap(ts)
        acc[i \in 0..Len(domainGroups)] ==
            IF i = 0 THEN <<>>
            ELSE acc[i - 1] \o NearGroupsOfDomain(domainGroups[i].val, th)
    IN  acc[Len(domainGroups)]

\* an optional field is <<>> when undefined and <<v>> when it has the value v
Undefined == <<>>

\* a.dateAdded ?? 0
DateAddedOr0(b) == IF b.dateAdded = Undefined THEN 0 ELSE b.dateAdded[1]

\* bookmarks.sort((a, b) => (a.dateAdded ?? 0) - (b.dateAdded ?? 0))
SortBookmarks(bs) == StableSort(bs, [i \in 1..Len(bs) |-> DateAddedOr0(bs[i])])

\* if (!bookmark.url) continue
SkipBookmark(b) == b.url = Undefined

BookmarkGroupsMap(bs) ==
    LET m[i \in 0..Len(bs)] ==
            IF i = 0 THEN <<>>
            ELSE IF SkipBookmark(bs[i]) THEN m[i - 1]
                 ELSE MapPush(m[i - 1], normalizeUrl(bs[i].url[1], NoOptions), bs[i])
    IN  m[Len(bs)]

findDuplicateBookmarks(bs) ==
    LET kept == SelectSeq(BookmarkGroupsMap(bs), HasDuplicates)
    IN  [i \in 1..Len(kept) |->
            [normalizedUrl |-> kept[i].key, bookmarks |-> SortBookmarks(kept[i].val)]]

\* Removable without the test of pinned
Removable_Always(tab) == TRUE

\* if (tab && !tab.pinned)
Removable(tab) == ~tab.pinned

\* for (let i = 1; i < group.tabs.length; i++): the tabs after the first
RemovalCandidates(group) == SubSeq(group.tabs, 2, Len(group.tabs))

getDuplicateTabsToRemove(gs) ==
    LET acc[i \in 0..Len(gs)] ==
            IF i = 0 THEN <<>>
            ELSE LET rest == SelectSeq(RemovalCandidates(gs[i]), Removable)
                 IN  acc[i - 1] \o [j \in 1..Len(rest) |-> rest[j].id]
    IN  acc[Len(gs)]

(***************************************************************************)
(* The duplicate scan: a list of tabs is handed to one of the tab finders  *)
(* or a list of bookmarks to findDuplicateBookmarks, and the groups of     *)
(* findDuplicateTabs are handed on to getDuplicateTabsToRemove             *)
(***************************************************************************)

MaxTabs == 3
MaxBookmarks == 3

\* https://a.com/x
UrlPlain == Str("https", <<"a", "com">>, <<"x">>, <<>>, "")
\* http://WWW.A.com/x/?utm_source=t#f
UrlNoisy == Str("http", <<"WWW", "A", "com">>, <<"x", "">>, <<<<"utm_source", "t">>>>, "f")
\* https://a.com/x/y
UrlDeeper == Str("https", <<"a", "com">>, <<"x", "y">>, <<>>, "")
\* chrome://settings
UrlChrome == Str("chrome", <<"settings">>, <<>>, <<>>, "")

TabUrls == {UrlPlain, UrlNoisy, UrlDeeper, UrlChrome}

BookmarkUrls == {UrlPlain, UrlNoisy, UrlChrome}

Thresholds == {<<4, 5>>, <<1, 2>>}

IdOrders(n) == {p \in [1..n -> 1..n] : \A i, j \in 1..n : p[i] = p[j] => i = j}

\* tabs as chrome.tabs.query returns them: in any order, every tab with its own id
MkTabs(ids, urls, pins) ==
    [i \in 1..Len(ids) |-> [id |-> ids[i], url |-> urls[i], pinned |-> pins[i]]]

\* flattened bookmark nodes: a folder has no url, dateAdded is optional
MkBookmarks(urls, dates) ==
    [i \in 1..Len(urls) |-> [id |-> i, url |-> urls[i], dateAdded |-> dates[i]]]

\* no item has been handed to the batcher
BatchIdle ==
    /\ items = <<>>
    /\ maxContextTokens = 0
    /\ reservedTokens = 0
    /\ split = FALSE
    /\ batches = <<>>
    /\ batchSize = <<>>

\* the value of a local that was not assigned, and of an option left out
None == "none"

\* retry has not been called
RetryIdle ==
    /\ retryOptions = None
    /\ pc = "idle"
    /\ attempt = 0
    /\ lastError = None
    /\ fnCalls = 0
    /\ raised = <<>>
    /\ onRetryCalls = <<>>
    /\ sleeps = <<>>
    /\ outcome = None

\* normalizeUrl has not been called
NormIdle ==
    /\ nUrl = Str("", <<>>, <<>>, <<>>, "")
    /\ nOptions = [o \in {} |-> TRUE]
    /\ nCalls = 0
    /\ normalized = <<>>
    /\ renormalized = <<>>

\* no similarity measure has been called
SimIdle ==
    /\ strA = <<>>
    /\ strB = <<>>
    /\ distance = <<>>
    /\ setA = {}
    /\ setB = {}
    /\ similarity = <<>>

\* tokenize and findBestMatch have not been called
MatchIdle ==
    /\ tkText = <<>>
    /\ tkTokens = <<>>
    /\ bmQuery = <<>>
    /\ bmCandidates = <<>>
    /\ minSimilarity = <<1, 2>>
    /\ bestMatch = <<>>

\* the DuplicateFinder page is not mounted
PageIdle ==
    /\ duplicates = <<>>
    /\ selectedIds = {}
    /\ showConfirm = FALSE
    /\ closing = FALSE
    /\ closeCalls = <<>>

\* no window topic call is in flight
StoreIdle ==
    /\ stored = <<>>
    /\ calls = <<>>
    /\ callPc = <<>>
    /\ callTopics = <<>>

\* the parts of the program added after the duplicate scan, batching and retry
LibIdle ==
    /\ MatchIdle
    /\ PageIdle
    /\ StoreIdle

InitDup ==
    /\ BatchIdle
    /\ RetryIdle
    /\ NormIdle
    /\ SimIdle
    /\ LibIdle
    /\ compared = <<>>
    /\ \/ /\ \E n \in 0..MaxTabs :
               \E ids \in IdOrders(n), urls \in [1..n -> TabUrls], pins \in [1..n -> BOOLEAN] :
                  tabs = MkTabs(ids, urls, pins)
          /\ bookmarks = <<>>
       \/ /\ tabs = <<>>
          /\ \E n \in 0..MaxBookmarks :
               \E urls \in [1..n -> {Undefined} \cup {<<u>> : u \in BookmarkUrls}],
                  dates \in [1..n -> {Undefined, <<1>>, <<2>>}] :
                  bookmarks = MkBookmarks(urls, dates)
    /\ phase = "idle"
    /\ groups = <<>>
    /\ threshold = <<4, 5>>
    /\ removed = FALSE
    /\ toRemove = <<>>

FindDuplicateTabs ==
    /\ phase = "idle"
    /\ bookmarks = <<>>
    /\ phase' = "exact"
    /\ groups' = findDuplicateTabs(tabs)
    /\ UNCHANGED <<tabs, bookmarks, threshold, removed, toRemove, compared, batchVars, retryVars, normVars, simVars, matchVars, pageVars, storeVars>>

FindNearDuplicateTabs ==
    /\ phase = "idle"
    /\ bookmarks = <<>>
    /\ \E th \in Thresholds :
          /\ threshold' = th
          /\ groups' = findNearDuplicateTabs(tabs, th)
    /\ phase' = "near"
    /\ UNCHANGED <<tabs, bookmarks, removed, toRemove, compared, batchVars, retryVars, normVars, simVars, matchVars, pageVars, storeVars>>

FindDuplicateBookmarks ==
    /\ phase = "idle"
    /\ tabs = <<>>
    /\ phase' = "bookmarks"
    /\ groups' = findDuplicateBookmarks(bookmarks)
    /\ UNCHANGED <<tabs, bookmarks, threshold, removed, toRemove, compared, batchVars, retryVars, normVars, simVars, matchVars, pageVars, storeVars>>

GetDuplicateTabsToRemove ==
    /\ phase = "exact"
    /\ ~removed
    /\ removed' = TRUE
    /\ toRemove' = getDuplicateTabsToRemove(groups)
    /\ UNCHANGED <<tabs, bookmarks, phase, groups, threshold, compared, batchVars, retryVars, normVars, simVars, matchVars, pageVars, storeVars>>

NextDup ==
    \/ FindDuplicateTabs
    \/ FindNearDuplicateTabs
    \/ FindDuplicateBookmarks
    \/ GetDuplicateTabsToRemove

SpecDup == InitDup /\ [][NextDup]_vars

(***************************************************************************)
(* Properties of the duplicate scan                                        *)
(***************************************************************************)

\* the set of the elements of a sequence
Range(s) == {s[i] : i \in 1..Len(s)}

GroupIndex == 1..Len(groups)

\* the input tabs the tab finders look at
NonInternalTabs == {t \in Range(tabs) : ~isInternalUrl(t.url)}

\* the key findDuplicateTabs gives each of them
KeyOfTab == [t \in NonInternalTabs |-> normalizeUrl(t.url, NoOptions)]

Members(g) == IF phase = "bookmarks" THEN groups[g].bookmarks ELSE groups[g].tabs

\* C2: every group returned by findDuplicateTabs, findNearDuplicateTabs and
\* findDuplicateBookmarks has at least 2 members
C2_GroupsHaveTwoMembers ==
    phase \in {"exact", "near", "bookmarks"} =>
        \A g \in GroupIndex : Len(Members(g)) >= 2

\* a finder has returned a group while a record of its input is in no group
C2_Witness ==
    /\ phase \in {"exact", "near", "bookmarks"}
    /\ Len(groups) >= 1
    /\ Len(Members(1)) < Len(tabs) + Len(bookmarks)

\* the tabs of a group after the first one
LaterTabs(g) == {groups[g].tabs[i] : i \in 2..Len(groups[g].tabs)}

\* C3: for the groups of findDuplicateTabs, getDuplicateTabsToRemove returns exactly
\* the ids of the tabs that are neither first in their group nor pinned, each once;
\* no id of a pinned tab or of a group's first tab is returned, so every group
\* keeps a tab that is not closed
C3_RemoveOnlyLaterUnpinned ==
    (phase = "exact" /\ removed) =>
        /\ Range(toRemove) =
               {t.id : t \in {x \in UNION {LaterTabs(g) : g \in GroupIndex} : ~x.pinned}}
        /\ Len(toRemove) = Cardinality(Range(toRemove))
        /\ \A t \in Range(tabs) : t.pinned => t.id \notin Range(toRemove)
        /\ \A g \in GroupIndex :
              /\ groups[g].tabs[1].id \notin Range(toRemove)
              /\ \E t \in Range(groups[g].tabs) : t.id \notin Range(toRemove)

\* a group of three whose later tabs are one pinned and one not: one id is returned
C3_Witness ==
    /\ phase = "exact"
    /\ removed
    /\ Len(groups) = 1
    /\ Len(groups[1].tabs) = 3
    /\ Len(toRemove) = 1
    /\ \E i \in 2..3 : groups[1].tabs[i].pinned

\* C4: the tabs of a group of findDuplicateTabs are in ascending order of id, the
\* bookmarks of a group of findDuplicateBookmarks in ascending order of
\* dateAdded ?? 0, so the first member has the lowest ordering key of its group
C4_ExactGroupsSorted ==
    /\ phase = "exact" =>
          \A g \in GroupIndex :
             /\ \A i \in 1..(Len(groups[g].tabs) - 1) :
                   groups[g].tabs[i].id < groups[g].tabs[i + 1].id
             /\ \A t \in Range(groups[g].tabs) : groups[g].tabs[1].id <= t.id
    /\ phase = "bookmarks" =>
          \A g \in GroupIndex :
             /\ \A i \in 1..(Len(groups[g].bookmarks) - 1) :
                   DateAddedOr0(groups[g].bookmarks[i])
                       <= DateAddedOr0(groups[g].bookmarks[i + 1])
             /\ \A b \in Range(groups[g].bookmarks) :
                   DateAddedOr0(groups[g].bookmarks[1]) <= DateAddedOr0(b)

\* the input held the members of a group in another order than the group does
C4_Witness ==
    \/ /\ phase = "exact"
       /\ \E g \in GroupIndex : \E i, j \in 1..Len(tabs) :
             /\ i < j
             /\ tabs[i].id > tabs[j].id
             /\ {tabs[i], tabs[j]} \subseteq Range(groups[g].tabs)
    \/ /\ phase = "bookmarks"
       /\ \E g \in GroupIndex : \E i, j \in 1..Len(bookmarks) :
             /\ i < j
             /\ DateAddedOr0(bookmarks[i]) > DateAddedOr0(bookmarks[j])
             /\ bookmarks[j].dateAdded = Undefined
             /\ {bookmarks[i], bookmarks[j]} \subseteq Range(groups[g].bookmarks)

\* C5: the tabs of every group of findNearDuplicateTabs are in ascending order of
\* id, so the first tab, the one getDuplicateTabsToRemove keeps, has the lowest id
C5_NearGroupsSorted ==
    phase = "near" =>
        \A g \in GroupIndex :
           /\ \A i \in 1..(Len(groups[g].tabs) - 1) :
                 groups[g].tabs[i].id < groups[g].tabs[i + 1].id
           /\ \A t \in Range(groups[g].tabs) : groups[g].tabs[1].id <= t.id

\* C6: no record with an internal URL is in a group of findDuplicateTabs,
\* findDuplicateBookmarks or findNearDuplicateTabs
C6_NoInternalUrlInGroups ==
    /\ phase \in {"exact", "near"} =>
          \A g \in GroupIndex : \A t \in Range(groups[g].tabs) : ~isInternalUrl(t.url)
    /\ phase = "bookmarks" =>
          \A g \in GroupIndex : \A b \in Range(groups[g].bookmarks) :
             ~isInternalUrl(b.url[1])

(***************************************************************************)
(* token-estimator: a text is the sequence of its characters, " " being    *)
(* the whitespace                                                          *)
(***************************************************************************)

\* text.split(/\s+/).filter(Boolean).length
WordCount(text) ==
    Cardinality({i \in 1..Len(text) : text[i] # " " /\ (i = 1 \/ text[i - 1] = " ")})

\* Math.ceil(n / d) of non-negative integers
CeilDiv(n, d) == (n + d - 1) \div d

estimateTokens(text) ==
    IF text = <<>> THEN 0
    ELSE LET byWords == CeilDiv(WordCount(text) * 13, 10)
             byChars == CeilDiv(Len(text), 4)
         IN  IF byWords >= byChars THEN byWords ELSE byChars

estimateTabTokens(url, title) == estimateTokens(url) + estimateTokens(title) + 10

\* line 82: const itemTokens = estimateTabTokens(item.url, item.title) + 10
ItemTokens(item) == estimateTabTokens(item.url, item.title) + 10

\* ClosesBatch that forgets the tokens the current batch already holds
ClosesBatch_IgnoresTotal(currentTokens, itemTokens, availableTokens, currentBatch) ==
    itemTokens > availableTokens /\ Len(currentBatch) > 0

\* line 84: the current batch is closed before the item is added
ClosesBatch(currentTokens, itemTokens, availableTokens, currentBatch) ==
    currentTokens + itemTokens > availableTokens /\ Len(currentBatch) > 0

\* lines 81-92: one round of the loop, st = [batches, currentBatch, currentTokens]
BatchStep(st, item, availableTokens) ==
    LET itemTokens == ItemTokens(item)
        closed == IF ClosesBatch(st.currentTokens, itemTokens, availableTokens,
                                 st.currentBatch)
                  THEN [batches       |-> Append(st.batches, st.currentBatch),
                        currentBatch  |-> <<>>,
                        currentTokens |-> 0]
                  ELSE st
    IN  [batches       |-> closed.batches,
         currentBatch  |-> Append(closed.currentBatch, item),
         currentTokens |-> closed.currentTokens + itemTokens]

\* PushLast that forgets the batch under construction
PushLast_Dropped(st) == st.batches

\* lines 94-96: the last batch is pushed when it is not empty
PushLast(st) ==
    IF Len(st.currentBatch) > 0 THEN Append(st.batches, st.currentBatch) ELSE st.batches

splitIntoBatches(its, maxContext, reserved) ==
    LET availableTokens == maxContext - reserved
        st[i \in 0..Len(its)] ==
            IF i = 0 THEN [batches |-> <<>>, currentBatch |-> <<>>, currentTokens |-> 0]
            ELSE BatchStep(st[i - 1], its[i], availableTokens)
    IN  PushLast(st[Len(its)])

(***************************************************************************)
(* A call of splitIntoBatches                                              *)
(***************************************************************************)

MaxItems == 4

\* reservedTokens = 2500
DefaultReservedTokens == 2500

TextEmpty == <<>>
\* "ab": 2 tokens
TextShort == <<"a", "b">>
\* "a b c": 4 tokens
TextWords == <<"a", " ", "b", " ", "c">>
\* "aaaaaaaaa": 3 tokens
TextLong == <<"a", "a", "a", "a", "a", "a", "a", "a", "a">>

\* "a a a ... a", 24 words: 32 tokens
TextMany == [i \in 1..47 |-> IF i % 2 = 1 THEN "a" ELSE " "]

\* items of 22, 23, 26, 27, 54 and 55 tokens
ItemPool == [url : {TextShort, TextLong}, title : {TextEmpty, TextWords, TextMany}]

\* with the reserved tokens these give budgets from below 0 to 80
MaxContextChoices == {2490, 2500, 2520, 2525, 2550, 2580}
ReservedChoices == {DefaultReservedTokens, 2530}

\* no tab and no bookmark has been handed to a finder
DupIdle ==
    /\ tabs = <<>>
    /\ bookmarks = <<>>
    /\ phase = "idle"
    /\ groups = <<>>
    /\ threshold = <<4, 5>>
    /\ removed = FALSE
    /\ toRemove = <<>>
    /\ compared = <<>>

InitBatch ==
    /\ LibIdle
    /\ DupIdle
    /\ RetryIdle
    /\ NormIdle
    /\ SimIdle
    /\ batchSize = <<>>
    /\ \E n \in 0..MaxItems : items \in [1..n -> ItemPool]
    /\ maxContextTokens \in MaxContextChoices
    /\ reservedTokens \in ReservedChoices
    /\ split = FALSE
    /\ batches = <<>>

SplitIntoBatches ==
    /\ ~split
    /\ split' = TRUE
    /\ batches' = splitIntoBatches(items, maxContextTokens, reservedTokens)
    /\ UNCHANGED <<items, maxContextTokens, reservedTokens, batchSize, dupVars, retryVars, normVars, simVars, matchVars, pageVars, storeVars>>

NextBatch == SplitIntoBatches

SpecBatch == InitBatch /\ [][NextBatch]_vars

(***************************************************************************)
(* Properties of splitIntoBatches                                          *)
(***************************************************************************)

Budget == maxContextTokens - reservedTokens

\* the batches put one after the other
Flatten(bs) ==
    LET f[i \in 0..Len(bs)] == IF i = 0 THEN <<>> ELSE f[i - 1] \o bs[i]
    IN  f[Len(bs)]

\* the sum of a sequence of numbers
Sum(ns) ==
    LET f[i \in 0..Len(ns)] == IF i = 0 THEN 0 ELSE f[i - 1] + ns[i]
    IN  f[Len(ns)]

\* the spec's cost of an item: estimateTokens(url) + estimateTokens(title) + 10
ItemCost(item) == estimateTabTokens(item.url, item.title)

\* what a batch costs as the code counts it, and as the spec counts it
BatchTokens(batch) == Sum([i \in 1..Len(batch) |-> ItemTokens(batch[i])])
BatchCost(batch) == Sum([i \in 1..Len(batch) |-> ItemCost(batch[i])])

\* C7: the batches of splitIntoBatches, concatenated in order, are the input; no
\* batch is empty and a non-empty input gives at least one batch
C7_BatchesPartitionInput ==
    split =>
        /\ Flatten(batches) = items
        /\ \A b \in 1..Len(batches) : Len(batches[b]) > 0
        /\ items # <<>> => Len(batches) >= 1

\* several batches, one of them with several items
C7_Witness ==
    /\ split
    /\ Len(batches) >= 2
    /\ \E b \in 1..Len(batches) : Len(batches[b]) >= 2

\* C8: every batch costs at most the budget or is a single item; an item that
\* costs more than the budget is alone in its batch, and with a budget <= 0
\* every item is its own batch.  It holds of the cost the code sums (ItemTokens)
\* and so of the smaller cost of the spec (ItemCost)
C8_BatchWithinBudgetOrSingle ==
    split =>
        /\ \A b \in 1..Len(batches) :
              \/ BatchTokens(batches[b]) <= Budget
              \/ Len(batches[b]) = 1
        /\ \A b \in 1..Len(batches) :
              \/ BatchCost(batches[b]) <= Budget
              \/ Len(batches[b]) = 1
        /\ \A b \in 1..Len(batches) : \A i \in 1..Len(batches[b]) :
              (ItemTokens(batches[b][i]) > Budget \/ ItemCost(batches[b][i]) > Budget)
                  => Len(batches[b]) = 1
        /\ Budget <= 0 => \A b \in 1..Len(batches) : Len(batches[b]) = 1

\* a batch of several items next to a batch of one item that is over the budget
C8_Witness ==
    /\ split
    /\ Budget > 0
    /\ \E b \in 1..Len(batches) : Len(batches[b]) >= 2
    /\ \E b \in 1..Len(batches) :
          Len(batches[b]) = 1 /\ ItemTokens(batches[b][1]) > Budget

\* the reference greedy procedure, an item costing ItemCost: an item joins the
\* current batch when runningTotal + cost <= budget, else the non-empty current
\* batch is closed and the item starts the next one
ReferenceGreedy(its, budget) ==
    LET st[i \in 0..Len(its)] ==
            IF i = 0 THEN [closed |-> <<>>, current |-> <<>>, runningTotal |-> 0]
            ELSE LET prev == st[i - 1]
                     cost == ItemCost(its[i])
                 IN  IF prev.runningTotal + cost <= budget
                     THEN [closed       |-> prev.closed,
                           current      |-> Append(prev.current, its[i]),
                           runningTotal |-> prev.runningTotal + cost]
                     ELSE [closed       |-> IF prev.current = <<>> THEN prev.closed
                                            ELSE Append(prev.closed, prev.current),
                           current      |-> <<its[i]>>,
                           runningTotal |-> cost]
        last == st[Len(its)]
    IN  IF last.current = <<>> THEN last.closed ELSE Append(last.closed, last.current)

\* C23: splitIntoBatches returns the batches of the reference greedy procedure
\* in which an item costs estimateTokens(url) + estimateTokens(title) + 10
C23_MatchesReferenceGreedy ==
    split => batches = ReferenceGreedy(items, Budget)

(***************************************************************************)
(* retry: one call, from its entry to its return or throw.  The call is    *)
(* suspended while fn's promise is pending and while it sleeps.            *)
(***************************************************************************)

MaxRetriesBound == 3

\* DEFAULT_OPTIONS of retry.ts
DefaultMaxRetries == 3
DefaultInitialDelay == 1000
DefaultMaxDelay == 8000
DefaultBackoffMultiplier == 2

\* what fn can reject with
Errors == {"rate limit", "unauthorized"}

\* what fn resolves with
FnResult == "result"

\* Math.pow(b, e) for a natural exponent
Pow(b, e) ==
    LET f[i \in 0..e] == IF i = 0 THEN 1 ELSE b * f[i - 1]
    IN  f[e]

Min(a, b) == IF a <= b THEN a ELSE b

\* BackoffDelay without the cap of maxDelay
BackoffDelay_NoCap(o, a) == o.initialDelay * Pow(o.backoffMultiplier, a)

\* lines 44-47
BackoffDelay(o, a) == Min(o.initialDelay * Pow(o.backoffMultiplier, a), o.maxDelay)

\* NotifyRetry that reports every failure twice
NotifyRetry_Twice(reported, o, error, a) ==
    IF o.onRetry THEN reported \o <<<<error, a + 1>>, <<error, a + 1>>>> ELSE reported

\* lines 50-52: if (opts.onRetry) opts.onRetry(error, attempt + 1); reported is
\* the list of the calls onRetry has received
NotifyRetry(reported, o, error, a) ==
    IF o.onRetry THEN Append(reported, <<error, a + 1>>) ELSE reported

\* LoopContinues with attempt < opts.maxRetries
LoopContinues_OffByOne(a, o) == a < o.maxRetries

\* line 27: attempt <= opts.maxRetries
LoopContinues(a, o) == a <= o.maxRetries

\* RejectedByShouldRetry that never asks the predicate
RejectedByShouldRetry_Never(o, error) == FALSE

\* line 34: opts.shouldRetry && !opts.shouldRetry(error); a predicate is the set of
\* the errors it returns true for
RejectedByShouldRetry(o, error) ==
    o.shouldRetry # Undefined /\ error \notin o.shouldRetry[1]

\* line 39: attempt >= opts.maxRetries
LastAttempt(a, o) == a >= o.maxRetries

\* the timing options a call is made with
DelayChoices ==
    {[initialDelay |-> DefaultInitialDelay, maxDelay |-> DefaultMaxDelay,
      backoffMultiplier |-> DefaultBackoffMultiplier],
     [initialDelay |-> 1000, maxDelay |-> 3000, backoffMultiplier |-> 2],
     [initialDelay |-> 500, maxDelay |-> 8000, backoffMultiplier |-> 3]}

InitRetry ==
    /\ LibIdle
    /\ DupIdle
    /\ BatchIdle
    /\ NormIdle
    /\ SimIdle
    /\ \E m \in 0..MaxRetriesBound, d \in DelayChoices,
          sr \in {Undefined} \cup {<<e>> : e \in SUBSET Errors}, cb \in BOOLEAN :
          retryOptions = [maxRetries |-> m, initialDelay |-> d.initialDelay,
                  maxDelay |-> d.maxDelay, backoffMultiplier |-> d.backoffMultiplier,
                  shouldRetry |-> sr,
                  onRetry |-> cb]
    /\ pc = "start"
    /\ attempt = 0
    /\ lastError = None
    /\ fnCalls = 0
    /\ raised = <<>>
    /\ onRetryCalls = <<>>
    /\ sleeps = <<>>
    /\ outcome = None

\* the head of the loop with the counter at a: fn is invoked, or the loop is over
\* and lastError is thrown (line 59)
LoopHead(a, err) ==
    IF LoopContinues(a, retryOptions)
    THEN /\ fnCalls' = fnCalls + 1
         /\ pc' = "awaitFn"
         /\ outcome' = outcome
    ELSE /\ fnCalls' = fnCalls
         /\ pc' = "thrown"
         /\ outcome' = err

\* retry is called
Enter ==
    /\ pc = "start"
    /\ attempt' = 0
    /\ LoopHead(0, lastError)
    /\ UNCHANGED <<retryOptions, lastError, raised, onRetryCalls, sleeps, dupVars, batchVars, normVars, simVars, matchVars, pageVars, storeVars>>

\* fn's promise resolves: return await fn()
FnResolves ==
    /\ pc = "awaitFn"
    /\ pc' = "returned"
    /\ outcome' = FnResult
    /\ UNCHANGED <<retryOptions, attempt, lastError, fnCalls, raised, onRetryCalls, sleeps,
                   dupVars, batchVars, normVars, simVars, matchVars, pageVars, storeVars>>

\* fn's promise rejects: the catch block, up to its throw, its break or its sleep
FnRejects ==
    /\ pc = "awaitFn"
    /\ \E error \in Errors :
          /\ lastError' = error
          /\ raised' = Append(raised, error)
          /\ IF RejectedByShouldRetry(retryOptions, error)
             THEN /\ pc' = "thrown"
                  /\ outcome' = error
                  /\ UNCHANGED <<onRetryCalls, sleeps>>
             ELSE IF LastAttempt(attempt, retryOptions)
             THEN /\ pc' = "thrown"
                  /\ outcome' = lastError'
                  /\ UNCHANGED <<onRetryCalls, sleeps>>
             ELSE /\ onRetryCalls' = NotifyRetry(onRetryCalls, retryOptions, error, attempt)
                  /\ sleeps' = Append(sleeps, BackoffDelay(retryOptions, attempt))
                  /\ pc' = "sleeping"
                  /\ outcome' = outcome
    /\ UNCHANGED <<retryOptions, attempt, fnCalls, dupVars, batchVars, normVars, simVars, matchVars, pageVars, storeVars>>

\* the timer of sleep fires: attempt++ and the next round of the loop
SleepDone ==
    /\ pc = "sleeping"
    /\ attempt' = attempt + 1
    /\ LoopHead(attempt + 1, lastError)
    /\ UNCHANGED <<retryOptions, lastError, raised, onRetryCalls, sleeps, dupVars, batchVars, normVars, simVars, matchVars, pageVars, storeVars>>

NextRetry ==
    \/ Enter
    \/ FnResolves
    \/ FnRejects
    \/ SleepDone

SpecRetry == InitRetry /\ [][NextRetry]_vars

(***************************************************************************)
(* Properties of retry                                                     *)
(***************************************************************************)

\* a shouldRetry predicate was supplied and returns false for the error
TurnedDown(error) ==
    /\ retryOptions.shouldRetry # Undefined
    /\ error \notin retryOptions.shouldRetry[1]

\* no failure so far was turned down by a shouldRetry predicate
NoRejection == \A i \in 1..Len(raised) : ~TurnedDown(raised[i])

\* C9: when fn fails on every attempt and shouldRetry turns no error down, retry
\* invokes fn exactly maxRetries + 1 times (4 times with the default maxRetries)
\* and on the failure of the last attempt ends by throwing that attempt's error
C9_ExhaustedRetriesRethrowLast ==
    /\ fnCalls <= retryOptions.maxRetries + 1
    /\ (pc = "thrown" /\ NoRejection) =>
          /\ fnCalls = retryOptions.maxRetries + 1
          /\ Len(raised) = fnCalls
          /\ outcome = raised[Len(raised)]
          /\ retryOptions.maxRetries = DefaultMaxRetries => fnCalls = 4
    /\ (NoRejection /\ Len(raised) = retryOptions.maxRetries + 1) => pc = "thrown"

\* the default four attempts have failed, the last with another error than the first
C9_Witness ==
    /\ pc = "thrown"
    /\ NoRejection
    /\ retryOptions.maxRetries = DefaultMaxRetries
    /\ fnCalls = 4
    /\ raised[1] # raised[4]
    /\ outcome = raised[4]

\* the last failure was turned down by the shouldRetry predicate
LastRejected == Len(raised) > 0 /\ TurnedDown(raised[Len(raised)])

\* C10: when an attempt fails with an error shouldRetry returns false for, retry
\* throws that error at once: fn is not invoked again, onRetry is not invoked for
\* that failure and no sleep is started, whatever attempts remain
C10_NonRetryableRethrownAtOnce ==
    LastRejected =>
        /\ pc = "thrown"
        /\ outcome = raised[Len(raised)]
        /\ fnCalls = Len(raised)
        /\ Len(sleeps) = Len(raised) - 1
        /\ Len(onRetryCalls) <= Len(raised) - 1
        /\ \A c \in 1..Len(onRetryCalls) : onRetryCalls[c][2] < Len(raised)

\* the second attempt fails with a turned-down error while two attempts remain,
\* after a first failure that was retried and reported to onRetry
C10_Witness ==
    /\ LastRejected
    /\ pc = "thrown"
    /\ Len(raised) = 2
    /\ retryOptions.maxRetries = 3
    /\ Len(onRetryCalls) = 1

\* min(initialDelay * backoffMultiplier^a, maxDelay)
CappedDelay(a) ==
    LET grown == retryOptions.initialDelay * retryOptions.backoffMultiplier ^ a
    IN  IF grown <= retryOptions.maxDelay THEN grown ELSE retryOptions.maxDelay

DefaultTiming ==
    /\ retryOptions.initialDelay = DefaultInitialDelay
    /\ retryOptions.maxDelay = DefaultMaxDelay
    /\ retryOptions.backoffMultiplier = DefaultBackoffMultiplier

\* C24: the i-th sleep follows the failure of the attempt of index i - 1, which
\* is below maxRetries, and lasts min(initialDelay * backoffMultiplier^(i - 1),
\* maxDelay), never more than maxDelay; a supplied onRetry has then been invoked
\* once for that failure, with its error and i; while the call sleeps no further
\* attempt has started, and an attempt only starts when retry is entered or a
\* sleep ends; with the default timing the sleeps are 1000, 2000, 4000
C24_BackoffBeforeNextAttempt ==
    /\ [](/\ Len(sleeps) <= retryOptions.maxRetries
          /\ \A i \in 1..Len(sleeps) :
                /\ sleeps[i] = CappedDelay(i - 1)
                /\ sleeps[i] <= retryOptions.maxDelay
                /\ i <= Len(raised)
                /\ ~TurnedDown(raised[i])
          /\ retryOptions.onRetry =>
                /\ Len(onRetryCalls) = Len(sleeps)
                /\ \A i \in 1..Len(sleeps) : onRetryCalls[i] = <<raised[i], i>>
          /\ pc = "sleeping" => fnCalls = Len(sleeps) /\ Len(raised) = Len(sleeps)
          /\ fnCalls <= Len(sleeps) + 1
          /\ (DefaultTiming /\ retryOptions.maxRetries = DefaultMaxRetries) =>
                \A i \in 1..Len(sleeps) : sleeps[i] = <<1000, 2000, 4000>>[i])
    /\ [][fnCalls' # fnCalls =>
              /\ pc \in {"start", "sleeping"}
              /\ fnCalls' = fnCalls + 1
              /\ sleeps' = sleeps
              /\ onRetryCalls' = onRetryCalls]_vars

\* three failures were reported and slept after, the third sleep cut to maxDelay,
\* and the fourth attempt is running
C24_Witness ==
    /\ pc = "awaitFn"
    /\ fnCalls = 4
    /\ retryOptions.onRetry
    /\ sleeps = <<1000, 2000, 3000>>
    /\ onRetryCalls = <<<<raised[1], 1>>, <<raised[2], 2>>, <<raised[3], 3>>>>

\* C25: when retry has returned, the attempt that succeeded is the k-th, where
\* k - 1 <= maxRetries failures came before it and none was turned down: the
\* outcome is fn's result, fn was invoked k times, a supplied onRetry k - 1
\* times, k - 1 sleeps were taken, and nothing changes afterwards
C25_FirstSuccessReturns ==
    /\ [](pc = "returned" =>
              LET k == Len(raised) + 1
              IN  /\ outcome = FnResult
                  /\ k <= retryOptions.maxRetries + 1
                  /\ NoRejection
                  /\ fnCalls = k
                  /\ Len(sleeps) = k - 1
                  /\ Len(onRetryCalls) = IF retryOptions.onRetry THEN k - 1 ELSE 0)
    /\ [][pc = "returned" => UNCHANGED retryVars]_vars

\* the third attempt succeeded after two reported failures
C25_Witness ==
    /\ pc = "returned"
    /\ outcome = FnResult
    /\ fnCalls = 3
    /\ Len(raised) = 2
    /\ retryOptions.onRetry
    /\ Len(onRetryCalls) = 2

(***************************************************************************)
(* normalizeUrl called on one URL, then on its own result                  *)
(***************************************************************************)

\* the most query pairs a URL of the pool carries
MaxParams == 2

\* "" is a string without scheme, which new URL rejects
NormSchemes == {"", "http", "https", "chrome"}

NormHosts ==
    {<<"a", "com">>, <<"www", "a", "com">>, <<"WWW", "A", "com">>, <<"www", "www", "a", "com">>}

\* no path, "/", "/x", "/x/", "/x//"
NormPaths == {<<>>, <<"">>, <<"x">>, <<"x", "">>, <<"x", "", "">>}

NormPairs ==
    {<<"a", "1">>, <<"a", "2">>, <<"b", "1">>, <<"utm_source", "1">>, <<"UTM_SOURCE", "1">>}

NormHashes == {"", "f"}

\* option bags a caller passes: none, or some toggles switched off
OptionChoices ==
    {NoOptions,
     [stripProtocol |-> FALSE],
     [stripTrailingSlash |-> FALSE],
     [stripTracking |-> FALSE],
     [sortParams |-> FALSE],
     [stripTracking |-> FALSE, sortParams |-> FALSE],
     [stripTracking |-> FALSE, stripWww |-> FALSE, stripProtocol |-> FALSE,
      stripTrailingSlash |-> FALSE, stripHash |-> FALSE, lowercase |-> FALSE,
      sortParams |-> FALSE]}

\* every setting of the seven toggles
AllOptions == [DOMAIN DEFAULT_OPTIONS -> BOOLEAN]

\* "http://www.Example.com/foo/?b=2&utm_source=x&a=1#frag"
UrlExample ==
    Str("http", <<"www", "Example", "com">>, <<"foo", "">>,
        <<<<"b", "2">>, <<"utm_source", "x">>, <<"a", "1">>>>, "frag")

\* "http://", "chrome://settings", "a.com/x", "about:blank",
\* "https://www.a.com/x/?b=1&a=1#f" and the URL above
CoreUrls ==
    {Str("http", <<>>, <<>>, <<>>, ""),
     Str("chrome", <<"settings">>, <<>>, <<>>, ""),
     Str("", <<"a", "com">>, <<"x">>, <<>>, ""),
     Str("about", <<>>, <<"blank">>, <<>>, ""),
     Str("https", <<"www", "a", "com">>, <<"x", "">>, <<<<"b", "1">>, <<"a", "1">>>>, "f"),
     UrlExample}

InitNorm ==
    /\ LibIdle
    /\ DupIdle
    /\ BatchIdle
    /\ RetryIdle
    /\ SimIdle
    /\ \/ \E scheme \in NormSchemes, host \in NormHosts, path \in NormPaths,
             hash \in NormHashes, n \in 0..MaxParams :
             \E query \in [1..n -> NormPairs], o \in OptionChoices :
                /\ nUrl = Str(scheme, host, path, query, hash)
                /\ nOptions = o
       \/ \E u \in CoreUrls, o \in AllOptions :
             /\ nUrl = u
             /\ nOptions = o
    /\ nCalls = 0
    /\ normalized = <<>>
    /\ renormalized = <<>>

\* normalizeUrl(nUrl, nOptions)
Normalize ==
    /\ nCalls = 0
    /\ normalized' = <<normalizeUrl(nUrl, nOptions)>>
    /\ nCalls' = 1
    /\ UNCHANGED <<nUrl, nOptions, renormalized, dupVars, batchVars, retryVars, simVars, matchVars, pageVars, storeVars>>

\* normalizeUrl on what the first call returned, with the same options
NormalizeAgain ==
    /\ nCalls = 1
    /\ renormalized' = <<normalizeUrl(normalized[1], nOptions)>>
    /\ nCalls' = 2
    /\ UNCHANGED <<nUrl, nOptions, normalized, dupVars, batchVars, retryVars, simVars, matchVars, pageVars, storeVars>>

NextNorm ==
    \/ Normalize
    \/ NormalizeAgain

SpecNorm == InitNorm /\ [][NextNorm]_vars

(***************************************************************************)
(* Properties of normalizeUrl                                              *)
(***************************************************************************)

\* the string is an http(s) URL with a host
ValidHttp(u) == u.scheme \in {"http", "https"} /\ u.host # <<>>

\* the toggle as the call sees it: every toggle left out is on
Toggle(o) == IF o \in DOMAIN nOptions THEN nOptions[o] ELSE TRUE

DefaultsInForce ==
    \A o \in {"stripTracking", "stripWww", "stripProtocol", "stripTrailingSlash",
              "stripHash", "lowercase", "sortParams"} : Toggle(o)

\* C11: with the default options, normalizing the result of normalizeUrl on a
\* valid http(s) URL gives that result again.
C11_NormalizeIdempotent ==
    (nCalls = 2 /\ ValidHttp(nUrl) /\ DefaultsInForce) => renormalized = normalized

\* "http://WWW.A.com/x/?b=1&utm_source=1#f" became "a.com/x?b=1" and stayed so
C11_Witness ==
    /\ nCalls = 2
    /\ nOptions = NoOptions
    /\ nUrl = Str("http", <<"WWW", "A", "com">>, <<"x", "">>,
                  <<<<"b", "1">>, <<"utm_source", "1">>>>, "f")
    /\ normalized = <<Str("", <<"a", "com">>, <<"x">>, <<<<"b", "1">>>>, "")>>
    /\ renormalized = normalized

\* the host in lower case without one leading "www."
ExpectedHost(host) ==
    LET lower == [i \in 1..Len(host) |-> toLowerCase(host[i])]
    IN  IF Len(lower) >= 2 /\ lower[1] = "www" THEN Tail(lower) ELSE lower

\* the path without one trailing "/"
ExpectedPath(path) ==
    IF Len(path) > 0 /\ path[Len(path)] = "" THEN SubSeq(path, 1, Len(path) - 1) ELSE path

IsTrackingKey(k) == toLowerCase(k) \in TRACKING_PARAMS

\* the pairs of the query whose key is no tracking parameter, in their order
NonTrackingPairs(query) == SelectSeq(query, LAMBDA p : ~IsTrackingKey(p[1]))

\* the pairs sorted by key, pairs of one key in the order they had
SortedByKey(query) ==
    StableSort(query, [i \in 1..Len(query) |-> CollationRank(query[i][1])])

\* C12: with the default options the result for an http(s) URL is the lower-case
\* host without one leading "www.", the path without one trailing "/", and "?"
\* with the non-tracking pairs sorted by key when any remain; no scheme, no fragment.
C12_DefaultNormalForm ==
    (nCalls >= 1 /\ ValidHttp(nUrl) /\ DefaultsInForce) =>
        normalized = <<Str("", ExpectedHost(nUrl.host), ExpectedPath(nUrl.path),
                           SortedByKey(NonTrackingPairs(nUrl.query)), "")>>

\* C13: an input that does not parse, and a URL that is not http(s), comes back
\* unchanged whatever the options are.
C13_NonHttpUnchanged ==
    (nCalls >= 1 /\ ~ValidHttp(nUrl)) => normalized = <<nUrl>>

\* "chrome://a.com/x/?utm_source=1#f" with every toggle on came back as it was
C13_Witness ==
    /\ nCalls = 1
    /\ nOptions = NoOptions
    /\ nUrl = Str("chrome", <<"a", "com">>, <<"x", "">>, <<<<"utm_source", "1">>>>, "f")
    /\ normalized = <<nUrl>>

\* the pairs of the query with the key, in their order
PairsWithKey(query, k) == SelectSeq(query, LAMBDA p : p[1] = k)

\* C14: every pair with a non-tracking key is in the result, and the pairs of
\* one key are in the order the input has them in.
C14_DuplicateKeysKept ==
    (nCalls >= 1 /\ ValidHttp(nUrl)) =>
        \A i \in 1..Len(nUrl.query) :
            ~IsTrackingKey(nUrl.query[i][1]) =>
                PairsWithKey(normalized[1].query, nUrl.query[i][1])
                    = PairsWithKey(nUrl.query, nUrl.query[i][1])

\* the path of the URL: an http(s) URL without path has the path "/"
PathOf(u) == IF u.path = <<>> THEN <<"">> ELSE u.path

\* C15: with stripTrailingSlash one trailing "/" goes from a path that ends in
\* "/", but the path "/" stays "/".
C15_RootSlashKept ==
    (nCalls >= 1 /\ ValidHttp(nUrl) /\ Toggle("stripTrailingSlash")) =>
        normalized[1].path = IF PathOf(nUrl) = <<"">> THEN <<"">>
                             ELSE ExpectedPath(PathOf(nUrl))

\* stripProtocol is off and every other toggle is on
OnlyProtocolKept ==
    /\ ~Toggle("stripProtocol")
    /\ \A o \in {"stripTracking", "stripWww", "stripTrailingSlash", "stripHash",
                 "lowercase", "sortParams"} : Toggle(o)

\* C30: with stripProtocol off and the other options at their defaults, the
\* result of normalizeUrl on a valid http(s) URL is an https URL, and normalizing
\* it again returns it unchanged, also for hosts with a repeated www. label and
\* paths that end in several "/"
C30_IdempotentKeepingProtocol ==
    (nCalls = 2 /\ ValidHttp(nUrl) /\ OnlyProtocolKept) =>
        /\ normalized[1].scheme = "https"
        /\ ParseURL(normalized[1]).ok
        /\ renormalized = normalized

(***************************************************************************)
(* Near-duplicate detection on tabs of one site                            *)
(***************************************************************************)

\* the most tabs handed to findNearDuplicateTabs here
MaxNearTabs == 3

UrlRoot == Str("https", <<"a", "com">>, <<"">>, <<>>, "")

UrlA    == Str("https", <<"a", "com">>, <<"a">>, <<>>, "")

UrlAB   == Str("https", <<"a", "com">>, <<"a", "b">>, <<>>, "")

UrlABC  == Str("https", <<"a", "com">>, <<"a", "b", "c">>, <<>>, "")

UrlABD  == Str("https", <<"a", "com">>, <<"a", "b", "d">>, <<>>, "")

\* "http://www.a.com/a/b/c/?q=1": the domain of the others, another hostname
UrlWwwABC == Str("http", <<"www", "a", "com">>, <<"a", "b", "c", "">>, <<<<"q", "1">>>>, "")

\* "http://A.com/a/b/c/?q=1#f": /a/b/c on the same hostname in another spelling
UrlMixed == Str("http", <<"A", "com">>, <<"a", "b", "c", "">>, <<<<"q", "1">>>>, "f")

\* "a.com" and "", strings new URL rejects
UrlBare == Str("", <<"a", "com">>, <<>>, <<>>, "")

UrlEmpty == Str("", <<>>, <<>>, <<>>, "")

NearUrls == {UrlRoot, UrlA, UrlAB, UrlABC, UrlABD, UrlWwwABC, UrlMixed, UrlBare, UrlEmpty}

InitNear ==
    /\ LibIdle
    /\ BatchIdle
    /\ RetryIdle
    /\ NormIdle
    /\ SimIdle
    /\ \E n \in 0..MaxNearTabs :
          \E urls \in [1..n -> NearUrls] :
             tabs = MkTabs([i \in 1..n |-> i], urls, [i \in 1..n |-> FALSE])
    /\ bookmarks = <<>>
    /\ phase = "idle"
    /\ groups = <<>>
    /\ threshold = <<4, 5>>
    /\ removed = FALSE
    /\ toRemove = <<>>
    /\ compared = <<>>

\* areSimilarUrls on the urls of the first two tabs
AreSimilarUrls ==
    /\ phase = "idle"
    /\ Len(tabs) >= 2
    /\ \E th \in Thresholds :
          /\ threshold' = th
          /\ compared' = <<areSimilarUrls(tabs[1].url, tabs[2].url, th)>>
    /\ phase' = "compared"
    /\ UNCHANGED <<tabs, bookmarks, groups, removed, toRemove, batchVars, retryVars, normVars, simVars, matchVars, pageVars, storeVars>>

NextNear ==
    \/ AreSimilarUrls
    \/ FindNearDuplicateTabs

SpecNear == InitNear /\ [][NextNear]_vars

(***************************************************************************)
(* Properties of near-duplicate detection                                  *)
(***************************************************************************)

\* new URL accepts the string
Parses(u) == u.scheme # "" /\ ~(u.scheme \in {"http", "https"} /\ u.host = <<>>)

\* the hostname of a URL: its host in lower case
HostnameOf(u) == [i \in 1..Len(u.host) |-> toLowerCase(u.host[i])]

\* the non-empty segments of the path of a URL
SegmentsOf(u) == SelectSeq(u.path, LAMBDA seg : seg # "")

\* the positions at which both paths have the same segment
AlignedMatches(s1, s2) ==
    Cardinality({i \in 1..Len(s1) : i <= Len(s2) /\ s1[i] = s2[i]})

\* the path similarity of the claim, for the threshold th[1] / th[2]
PathSimilar(u1, u2, th) ==
    LET s1 == SegmentsOf(u1)
        s2 == SegmentsOf(u2)
        longer == IF Len(s1) >= Len(s2) THEN Len(s1) ELSE Len(s2)
    IN  /\ Parses(u1)
        /\ Parses(u2)
        /\ HostnameOf(u1) = HostnameOf(u2)
        /\ Len(s1) - Len(s2) \in {-1, 0, 1}
        /\ \/ Len(s1) = 0 /\ Len(s2) = 0
           \/ AlignedMatches(s1, s2) * th[2] >= th[1] * longer

\* the tabs of the group whose url is u
TabsWithUrl(g, u) == {i \in 1..Len(g.tabs) : g.tabs[i].url = u}

\* C16: areSimilarUrls is true exactly for two URLs of one hostname whose
\* segment counts differ by at most one and that have no segments at all or
\* aligned matches / longer count >= threshold; so at 0.8 no near-duplicate
\* group holds both /a/b/c and /a/b/d.
C16_PathSimilarity ==
    /\ phase = "compared" =>
           compared = <<PathSimilar(tabs[1].url, tabs[2].url, threshold)>>
    /\ (phase = "near" /\ threshold = <<4, 5>>) =>
           \A g \in 1..Len(groups) :
               TabsWithUrl(groups[g], UrlABC) = {} \/ TabsWithUrl(groups[g], UrlABD) = {}

\* /a/b/c and /a/b/d compared at 0.8: two of three segments match, not similar
C16_Witness ==
    /\ phase = "compared"
    /\ threshold = <<4, 5>>
    /\ tabs[1].url = UrlABC
    /\ tabs[2].url = UrlABD
    /\ compared = <<FALSE>>

\* C17: no tab whose url does not parse is in a group findNearDuplicateTabs
\* returns, whatever the other tabs are.
C17_UnparseableNeverGrouped ==
    phase = "near" =>
        \A g \in 1..Len(groups) :
            \A i \in 1..Len(groups[g].tabs) : Parses(groups[g].tabs[i].url)

\* two tabs with the url "a.com" next to a tab of a.com: no group
C17_Witness ==
    /\ phase = "near"
    /\ Len(tabs) = 3
    /\ tabs[1].url = UrlBare
    /\ tabs[2].url = UrlBare
    /\ tabs[3].url = UrlRoot
    /\ groups = <<>>

\* the tabs that open a cluster, by position in the input: a tab opens one when
\* it is path-similar to no tab before it that opened one
Representatives ==
    LET rep[i \in 1..Len(tabs)] ==
            \A j \in 1..(i - 1) :
                rep[j] => ~PathSimilar(tabs[i].url, tabs[j].url, threshold)
    IN  {i \in 1..Len(tabs) : rep[i]}

\* C22: in every group of findNearDuplicateTabs the first member opened its
\* cluster, and every other member comes later in the input, is path-similar to
\* the first member and to no representative of an earlier cluster.
C22_FirstRepresentativeWins ==
    phase = "near" =>
        \A g \in 1..Len(groups) :
            LET first == groups[g].tabs[1]
            IN  /\ first.id \in Representatives
                /\ \A k \in 2..Len(groups[g].tabs) :
                       LET member == groups[g].tabs[k]
                       IN  /\ member.id > groups[g].tabs[k - 1].id
                           /\ PathSimilar(member.url, first.url, threshold)
                           /\ \A j \in Representatives :
                                  j < first.id =>
                                      ~PathSimilar(member.url, tabs[j].url, threshold)

\* /a, /a/b/c, /a/b at 0.5: /a/b is similar to both earlier tabs and joins /a
C22_Witness ==
    /\ phase = "near"
    /\ threshold = <<1, 2>>
    /\ Len(tabs) = 3
    /\ tabs[1].url = UrlA
    /\ tabs[2].url = UrlABC
    /\ tabs[3].url = UrlAB
    /\ Len(groups) = 1
    /\ groups[1].tabs = <<tabs[1], tabs[3]>>

(***************************************************************************)
(* calculateBatchSize                                                      *)
(***************************************************************************)

\* a number is <<n>>; NaN, which 0 / 0 gives, is <<>>
NaN == <<>>

\* lines 53-65; the quotients are taken exactly: floor(a / (t / n)) is
\* floor(a * n / t).  Math.floor, Math.min and Math.max of NaN are NaN.
calculateBatchSize(its, maxContext, reserved) ==
    LET availableTokens == maxContext - reserved
        totalTokens[i \in 0..Len(its)] ==
            IF i = 0 THEN 0
            ELSE totalTokens[i - 1] + estimateTabTokens(its[i].url, its[i].title) + 10
    IN  IF availableTokens <= 0 THEN <<1>>
        ELSE IF Len(its) = 0 THEN NaN
        ELSE LET size == (availableTokens * Len(its)) \div totalTokens[Len(its)]
                 capped == IF size <= 100 THEN size ELSE 100
             IN  <<IF capped >= 5 THEN capped ELSE 5>>

\* the most items handed to calculateBatchSize here
MaxSizedItems == 3

\* budgets of -100, 0, 100, 200 and 2500 tokens with the default reserve
SizeContextChoices == {2400, 2500, 2600, 2700, 5000}

InitSize ==
    /\ LibIdle
    /\ DupIdle
    /\ RetryIdle
    /\ NormIdle
    /\ SimIdle
    /\ \E n \in 0..MaxSizedItems : items \in [1..n -> ItemPool]
    /\ maxContextTokens \in SizeContextChoices
    /\ reservedTokens \in ReservedChoices
    /\ split = FALSE
    /\ batches = <<>>
    /\ batchSize = <<>>

CalculateBatchSize ==
    /\ batchSize = <<>>
    /\ batchSize' = <<calculateBatchSize(items, maxContextTokens, reservedTokens)>>
    /\ UNCHANGED <<items, maxContextTokens, reservedTokens, split, batches,
                   dupVars, retryVars, normVars, simVars, matchVars, pageVars, storeVars>>

NextSize == CalculateBatchSize

SpecSize == InitSize /\ [][NextSize]_vars

\* floor(budget / average item cost) for a list that has items, an item costing
\* what the batcher counts for it
SizeQuotient ==
    ((maxContextTokens - reservedTokens) * Len(items))
        \div Sum([i \in 1..Len(items) |-> ItemTokens(items[i])])

\* C18: calculateBatchSize returns an integer from 5 to 100, the floor of
\* budget / average item cost brought into that range, also for the empty
\* list and for a budget that is not positive.
C18_BatchSizeClamped ==
    batchSize # <<>> =>
        /\ batchSize[1] # NaN
        /\ batchSize[1][1] \in 5..100
        /\ Len(items) > 0 =>
              batchSize[1][1] = IF SizeQuotient < 5 THEN 5
                                ELSE IF SizeQuotient > 100 THEN 100 ELSE SizeQuotient

(***************************************************************************)
(* similarity.ts: levenshteinDistance and jaccardSimilarity                *)
(* A string is the sequence of its characters.                             *)
(***************************************************************************)

\* SubstitutionCost that charges two for a substitution
SubstitutionCost_Two(x, y) == IF x = y THEN 0 ELSE 2

\* line 26: b.charAt(i - 1) === a.charAt(j - 1) ? 0 : 1
SubstitutionCost(x, y) == IF x = y THEN 0 ELSE 1

\* Math.min of three numbers
Min3(x, y, z) == Min(x, Min(y, z))

\* lines 4-35: matrix[i][j] for the first i characters of b and the first j of a
levenshteinDistance(a, b) ==
    IF Len(a) = 0 THEN Len(b)
    ELSE IF Len(b) = 0 THEN Len(a)
    ELSE LET matrix[i \in 0..Len(b), j \in 0..Len(a)] ==
                 IF i = 0 THEN j
                 ELSE IF j = 0 THEN i
                 ELSE Min3(matrix[i - 1, j] + 1,
                           matrix[i, j - 1] + 1,
                           matrix[i - 1, j - 1] + SubstitutionCost(b[i], a[j]))
         IN  matrix[Len(b), Len(a)]

\* UnionSize that counts the common elements twice
UnionSize_NoOverlap(sizeA, sizeB, intersection) == sizeA + sizeB

\* line 58: const union = a.size + b.size - intersection
UnionSize(sizeA, sizeB, intersection) == sizeA + sizeB - intersection

\* lines 49-60; the quotient intersection / union is the pair <<intersection, union>>,
\* the number 1 is <<1, 1>> and the number 0 is <<0, 1>>
jaccardSimilarity(a, b) ==
    IF a = {} /\ b = {} THEN <<1, 1>>
    ELSE IF a = {} \/ b = {} THEN <<0, 1>>
    ELSE LET intersection == Cardinality({item \in a : item \in b})
         IN  <<intersection, UnionSize(Cardinality(a), Cardinality(b), intersection)>>

\* the longest string handed to levenshteinDistance here
MaxStrLen == 3

\* the largest element of the sets handed to jaccardSimilarity here
MaxElement == 3

Alphabet == {"a", "b"}

AllStrings == UNION {[1..n -> Alphabet] : n \in 0..MaxStrLen}

Elements == 1..MaxElement

InitSim ==
    /\ LibIdle
    /\ DupIdle
    /\ BatchIdle
    /\ RetryIdle
    /\ NormIdle
    /\ \/ /\ strA \in AllStrings
          /\ strB \in AllStrings
          /\ setA = {}
          /\ setB = {}
       \/ /\ strA = <<>>
          /\ strB = <<>>
          /\ setA \in SUBSET Elements
          /\ setB \in SUBSET Elements
    /\ distance = <<>>
    /\ similarity = <<>>

LevenshteinDistance ==
    /\ distance = <<>>
    /\ distance' = <<levenshteinDistance(strA, strB)>>
    /\ UNCHANGED <<strA, strB, setA, setB, similarity, dupVars, batchVars, retryVars, normVars, matchVars, pageVars, storeVars>>

JaccardSimilarity ==
    /\ similarity = <<>>
    /\ similarity' = <<jaccardSimilarity(setA, setB)>>
    /\ UNCHANGED <<strA, strB, setA, setB, distance, dupVars, batchVars, retryVars, normVars, matchVars, pageVars, storeVars>>

NextSim ==
    \/ LevenshteinDistance
    \/ JaccardSimilarity

SpecSim == InitSim /\ [][NextSim]_vars

(***************************************************************************)
(* Properties of the similarity measures                                   *)
(***************************************************************************)

\* s without its i-th character
Without(s, i) == SubSeq(s, 1, i - 1) \o SubSeq(s, i + 1, Len(s))

\* t comes from s by one insertion, one deletion or one substitution
OneEdit(s, t) ==
    \/ Len(t) = Len(s) /\ Cardinality({i \in 1..Len(s) : s[i] # t[i]}) = 1
    \/ Len(t) = Len(s) + 1 /\ \E i \in 1..Len(t) : Without(t, i) = s
    \/ Len(s) = Len(t) + 1 /\ \E i \in 1..Len(s) : Without(s, i) = t

\* the strings one edit away from s
EditSteps == [s \in AllStrings |-> {t \in AllStrings : OneEdit(s, t)}]

\* Reach[s][k]: the strings at most k edits away from s; a shortest edit script
\* between two strings needs no string longer than the longer of the two
Reach ==
    [s \in AllStrings |->
        LET ball[k \in 0..MaxStrLen] ==
                IF k = 0 THEN {s}
                ELSE ball[k - 1] \cup UNION {EditSteps[t] : t \in ball[k - 1]}
        IN  ball]

\* the classic edit distance: the least number of single-character edits
EditDistance(s, t) ==
    CHOOSE k \in 0..MaxStrLen :
        /\ t \in Reach[s][k]
        /\ k > 0 => t \notin Reach[s][k - 1]

Kitten == <<"k", "i", "t", "t", "e", "n">>

Sitting == <<"s", "i", "t", "t", "i", "n", "g">>

KittenSitting == levenshteinDistance(Kitten, Sitting)

\* C19: levenshteinDistance is the classic edit distance: the least number of
\* insertions, deletions and substitutions; it is symmetric, 0 exactly for
\* equal strings and at most the longer length; kitten/sitting gives 3.
C19_LevenshteinIsEditDistance ==
    /\ distance # <<>> =>
          /\ distance[1] = EditDistance(strA, strB)
          /\ distance[1] = levenshteinDistance(strB, strA)
          /\ distance[1] = 0 <=> strA = strB
          /\ distance[1] <= IF Len(strA) >= Len(strB) THEN Len(strA) ELSE Len(strB)
    /\ KittenSitting = 3

\* "ab" and "baa" are two edits apart
C19_Witness ==
    /\ strA = <<"a", "b">>
    /\ strB = <<"b", "a", "a">>
    /\ distance = <<2>>

\* C20: jaccardSimilarity is |A n B| / |A u B|, 1 for two empty sets, 0 when
\* exactly one is empty; it is symmetric and lies in [0, 1].
C20_JaccardRatio ==
    similarity # <<>> =>
        LET num == similarity[1][1]
            den == similarity[1][2]
            swapped == jaccardSimilarity(setB, setA)
        IN  /\ den > 0
            /\ 0 <= num /\ num <= den
            /\ (setA = {} /\ setB = {}) => num = den
            /\ (setA = {}) # (setB = {}) => num = 0
            /\ (setA # {} \/ setB # {}) =>
                   num * Cardinality(setA \cup setB) = Cardinality(setA \cap setB) * den
            /\ num * swapped[2] = swapped[1] * den

\* {1, 2} and {2, 3}: one common element of three
C20_Witness ==
    /\ setA = {1, 2}
    /\ setB = {2, 3}
    /\ similarity = <<<<1, 3>>>>

(***************************************************************************)
(* similarity.ts: tokenize, jaccardStringSimilarity and findBestMatch      *)
(***************************************************************************)

\* the characters of the model that \w matches: [A-Za-z0-9_]
WordChars == {"a", "b", "c", "A", "B", "1", "_"}

\* the characters of the model that \s matches
SpaceChars == {" "}

\* .replace(/[^\w\s]/g, ' ') on one character
ReplaceNonWord(c) == IF c \notin WordChars /\ c \notin SpaceChars THEN " " ELSE c

\* .split(/\s+/).filter((token) => token.length > 0): the maximal runs of
\* characters that are not whitespace
SplitOnSpace(chars) ==
    LET st[i \in 0..Len(chars)] ==
            IF i = 0 THEN [done |-> <<>>, cur |-> <<>>]
            ELSE LET prev == st[i - 1]
                 IN  IF chars[i] \in SpaceChars
                     THEN [done |-> IF prev.cur = <<>> THEN prev.done
                                    ELSE Append(prev.done, prev.cur),
                           cur  |-> <<>>]
                     ELSE [done |-> prev.done, cur |-> Append(prev.cur, chars[i])]
        last == st[Len(chars)]
    IN  IF last.cur = <<>> THEN last.done ELSE Append(last.done, last.cur)

\* lines 102-108
tokenize(chars) ==
    SplitOnSpace([i \in 1..Len(chars) |-> ReplaceNonWord(toLowerCase(chars[i]))])

\* new Set(array)
SetOf(array) == {array[i] : i \in 1..Len(array)}

\* lines 65-69
jaccardStringSimilarity(a, b) ==
    jaccardSimilarity(SetOf(tokenize(a)), SetOf(tokenize(b)))

\* Exceeds with >= for >
Exceeds_OrEqual(x, y) == x[1] * y[2] >= y[1] * x[2]

\* line 152: similarity > bestSimilarity, for two quotients with positive denominators
Exceeds(x, y) == x[1] * y[2] > y[1] * x[2]

\* the return value null
Null == <<>>

\* lines 142-160; the result is null or <<match, similarity>>
findBestMatch(q, cands, minSim) ==
    LET st[i \in 0..Len(cands)] ==
            IF i = 0 THEN [bestMatch |-> Null, bestSimilarity |-> minSim]
            ELSE LET sim  == jaccardStringSimilarity(q, cands[i])
                     prev == st[i - 1]
                 IN  IF Exceeds(sim, prev.bestSimilarity)
                     THEN [bestMatch |-> <<cands[i]>>, bestSimilarity |-> sim]
                     ELSE prev
        last == st[Len(cands)]
    IN  IF last.bestMatch = Null THEN Null
        ELSE <<last.bestMatch[1], last.bestSimilarity>>

\* the longest text handed to tokenize here
MaxTextLen == 3

\* the longest candidate list handed to findBestMatch here
MaxCandidates == 3

TextChars == {"a", "b", "A", "1", " ", "-", "_"}

\* "a b", "a", "B-a", "a b c" and ""
MatchTexts ==
    {<<"a", " ", "b">>, <<"a">>, <<"B", "-", "a">>, <<"a", " ", "b", " ", "c">>, <<>>}

\* minSimilarity: 0.5 by default, 0, 2/3
MinSimilarities == {<<1, 2>>, <<0, 1>>, <<2, 3>>}

InitMatch ==
    /\ DupIdle
    /\ BatchIdle
    /\ RetryIdle
    /\ NormIdle
    /\ SimIdle
    /\ PageIdle
    /\ StoreIdle
    /\ \/ /\ \E n \in 0..MaxTextLen : tkText \in [1..n -> TextChars]
          /\ bmQuery = <<>>
          /\ bmCandidates = <<>>
          /\ minSimilarity = <<1, 2>>
       \/ /\ tkText = <<>>
          /\ bmQuery \in MatchTexts
          /\ \E n \in 0..MaxCandidates : bmCandidates \in [1..n -> MatchTexts]
          /\ minSimilarity \in MinSimilarities
    /\ tkTokens = <<>>
    /\ bestMatch = <<>>

Tokenize ==
    /\ tkTokens = <<>>
    /\ tkTokens' = <<tokenize(tkText)>>
    /\ UNCHANGED <<tkText, bmQuery, bmCandidates, minSimilarity, bestMatch,
                   dupVars, batchVars, retryVars, normVars, simVars, pageVars, storeVars>>

FindBestMatch ==
    /\ bestMatch = <<>>
    /\ bestMatch' = <<findBestMatch(bmQuery, bmCandidates, minSimilarity)>>
    /\ UNCHANGED <<tkText, tkTokens, bmQuery, bmCandidates, minSimilarity,
                   dupVars, batchVars, retryVars, normVars, simVars, pageVars, storeVars>>

NextMatch ==
    \/ Tokenize
    \/ FindBestMatch

SpecMatch == InitMatch /\ [][NextMatch]_vars

(***************************************************************************)
(* Properties of tokenize and findBestMatch                                *)
(***************************************************************************)

\* the token-Jaccard similarity of two texts as the quotient <<num, den>>
TokenJaccard(a, b) ==
    LET wa == tokenize(a)
        wb == tokenize(b)
        ta == {wa[i] : i \in 1..Len(wa)}
        tb == {wb[i] : i \in 1..Len(wb)}
    IN  IF ta \cup tb = {} THEN <<1, 1>>
        ELSE <<Cardinality(ta \cap tb), Cardinality(ta \cup tb)>>

\* x > y and x = y for quotients with positive denominators
Greater(x, y) == x[1] * y[2] > y[1] * x[2]

SameRatio(x, y) == x[1] * y[2] = y[1] * x[2]

\* the similarity of the query to each candidate
Scores == [i \in 1..Len(bmCandidates) |-> TokenJaccard(bmQuery, bmCandidates[i])]

\* C21: findBestMatch returns null exactly when no candidate is more similar
\* to the query than minSimilarity; otherwise the first candidate of maximal
\* similarity, with that similarity.
C21_BestMatchIsFirstMaximum ==
    bestMatch # <<>> =>
        LET r == bestMatch[1]
            score == Scores
            clearing == {i \in 1..Len(bmCandidates) : Greater(score[i], minSimilarity)}
        IN  /\ r = Null <=> clearing = {}
            /\ r # Null =>
                  \E i \in clearing :
                      /\ \A j \in 1..Len(bmCandidates) : ~Greater(score[j], score[i])
                      /\ \A j \in 1..(i - 1) : Greater(score[i], score[j])
                      /\ r[1] = bmCandidates[i]
                      /\ SameRatio(r[2], score[i])

\* query "a b" against "a", "B-a", "a b c" at 0.5: "a" equals the threshold and
\* is passed over, "B-a" scores 1 and is returned
C21_Witness ==
    /\ bmQuery = <<"a", " ", "b">>
    /\ bmCandidates = <<<<"a">>, <<"B", "-", "a">>, <<"a", " ", "b", " ", "c">>>>
    /\ minSimilarity = <<1, 2>>
    /\ bestMatch = <<<<<<"B", "-", "a">>, <<2, 2>>>>>>

\* lower-case letters and digits
LowerAlnum == {"a", "b", "c", "1"}

\* C27: every token of tokenize is non-empty and made of lower-case letters and
\* digits only; punctuation, underscores and symbols separate tokens.
C27_TokensAreAlphanumeric ==
    tkTokens # <<>> =>
        \A i \in 1..Len(tkTokens[1]) :
            /\ Len(tkTokens[1][i]) > 0
            /\ \A k \in 1..Len(tkTokens[1][i]) : tkTokens[1][i][k] \in LowerAlnum

(***************************************************************************)
(* The DuplicateFinder page: its state, the useDuplicateTabs hook it reads *)
(* and the handlers of its buttons.  tabs are the tabs open in the browser.*)
(***************************************************************************)

MaxPageTabs == 2
MaxCloseCalls == 2

PageUrls == {UrlPlain, UrlDeeper}

\* scan of the hook: the groups the engine emits for the open tabs
scan(ts) == findDuplicateTabs(ts)

\* closeDuplicates of the hook: the platform closes the tabs of the ids
closeDuplicates(ts, ids) == SelectSeq(ts, LAMBDA t : t.id \notin ids)

\* lines 17-19: duplicates.flatMap((group) => group.tabs.slice(1))
allDuplicateTabs(dups) ==
    LET f[g \in 0..Len(dups)] ==
            IF g = 0 THEN <<>>
            ELSE f[g - 1] \o SubSeq(dups[g].tabs, 2, Len(dups[g].tabs))
    IN  f[Len(dups)]

\* the page is mounted over the open tabs, nothing scanned yet
InitPage ==
    /\ BatchIdle
    /\ RetryIdle
    /\ NormIdle
    /\ SimIdle
    /\ MatchIdle
    /\ StoreIdle
    /\ PageIdle
    /\ \E n \in 0..MaxPageTabs :
          \E ids \in IdOrders(n), urls \in [1..n -> PageUrls], pins \in [1..n -> BOOLEAN] :
              tabs = MkTabs(ids, urls, pins)
    /\ bookmarks = <<>>
    /\ phase = "idle"
    /\ groups = <<>>
    /\ threshold = <<4, 5>>
    /\ removed = FALSE
    /\ toRemove = <<>>
    /\ compared = <<>>

\* lines 23-26, 'Scan for Duplicates' and 'Rescan'
HandleScan ==
    /\ ~closing
    /\ selectedIds' = {}
    /\ duplicates' = scan(tabs)
    /\ UNCHANGED <<showConfirm, closing, closeCalls, dupVars, batchVars, retryVars, normVars, simVars, matchVars, storeVars>>

\* lines 28-30, 'Select All Duplicates', shown when there are groups
HandleSelectAllDuplicates ==
    /\ Len(duplicates) > 0
    /\ selectedIds' = {allDuplicateTabs(duplicates)[i].id :
                          i \in 1..Len(allDuplicateTabs(duplicates))}
    /\ UNCHANGED <<duplicates, showConfirm, closing, closeCalls, dupVars, batchVars, retryVars, normVars, simVars, matchVars, storeVars>>

\* toggleTab of a group card: the check box of a tab after the first
ToggleTab ==
    /\ \E g \in 1..Len(duplicates) : \E k \in 2..Len(duplicates[g].tabs) :
          LET id == duplicates[g].tabs[k].id
          IN  selectedIds' = IF id \in selectedIds THEN selectedIds \ {id}
                             ELSE selectedIds \cup {id}
    /\ UNCHANGED <<duplicates, showConfirm, closing, closeCalls, dupVars, batchVars, retryVars, normVars, simVars, matchVars, storeVars>>

\* the 'Close n Tabs' button: shown when something is selected, disabled while
\* closing
OpenConfirm ==
    /\ Len(duplicates) > 0
    /\ selectedIds # {}
    /\ ~closing
    /\ ~showConfirm
    /\ showConfirm' = TRUE
    /\ UNCHANGED <<duplicates, selectedIds, closing, closeCalls, dupVars, batchVars, retryVars, normVars, simVars, matchVars, storeVars>>

\* onCancel of the dialog, also while the tabs are being closed
CancelConfirm ==
    /\ showConfirm
    /\ showConfirm' = FALSE
    /\ UNCHANGED <<duplicates, selectedIds, closing, closeCalls, dupVars, batchVars, retryVars, normVars, simVars, matchVars, storeVars>>

\* lines 32-36, onConfirm of the dialog up to the await: with nothing selected
\* the handler returns, else closeDuplicates is handed the selected ids.  A call
\* is recorded with the groups on display; one call is followed at a time
HandleCloseDuplicates ==
    /\ showConfirm
    /\ ~closing
    /\ selectedIds # {}
    /\ Len(closeCalls) < MaxCloseCalls
    /\ closing' = TRUE
    /\ closeCalls' = Append(closeCalls, [ids |-> selectedIds, duplicates |-> duplicates])
    /\ UNCHANGED <<duplicates, selectedIds, showConfirm, dupVars, batchVars, retryVars, normVars, simVars, matchVars, storeVars>>

\* lines 36-39: closeDuplicates resolves, the hook keeping its groups or scanning
\* again, and the handler clears the selection and the dialog
CloseDuplicatesDone ==
    /\ closing
    /\ tabs' = closeDuplicates(tabs, closeCalls[Len(closeCalls)].ids)
    /\ duplicates' \in {duplicates, scan(tabs')}
    /\ selectedIds' = {}
    /\ closing' = FALSE
    /\ showConfirm' = FALSE
    /\ UNCHANGED <<closeCalls, bookmarks, phase, groups, threshold, removed, toRemove, compared, batchVars, retryVars, normVars, simVars, matchVars, storeVars>>

NextPage ==
    \/ HandleScan
    \/ HandleSelectAllDuplicates
    \/ ToggleTab
    \/ OpenConfirm
    \/ CancelConfirm
    \/ HandleCloseDuplicates
    \/ CloseDuplicatesDone

SpecPage == InitPage /\ [][NextPage]_vars

(***************************************************************************)
(* Properties of the DuplicateFinder page                                  *)
(***************************************************************************)

\* the ids 'Select All Duplicates' selects over the groups dups
SelectAllIds(dups) ==
    UNION {{dups[g].tabs[k].id : k \in 2..Len(dups[g].tabs)} : g \in 1..Len(dups)}

\* the tabs of the groups dups whose id is among ids, with their place in the group
HandedOver(dups, ids) ==
    {<<g, k>> \in (1..Len(dups)) \X (1..MaxPageTabs + 1) :
        k <= Len(dups[g].tabs) /\ dups[g].tabs[k].id \in ids}

\* C26: when closeDuplicates is handed the ids selected by 'Select All
\* Duplicates' over the scanned groups, none of them is the id of a pinned tab
\* and none is the id of the first tab of a group
C26_ClosedIdsExcludePinnedAndKeep ==
    \A c \in 1..Len(closeCalls) :
        LET call == closeCalls[c]
        IN  call.ids = SelectAllIds(call.duplicates) =>
                \A p \in HandedOver(call.duplicates, call.ids) :
                    /\ p[2] # 1
                    /\ ~call.duplicates[p[1]].tabs[p[2]].pinned

(***************************************************************************)
(* windowTopics in chrome.storage.local: two calls of saveWindowTopic or   *)
(* removeWindowTopic in flight together.  Each call is suspended at its    *)
(* await of getStorage and at its await of setStorage.                     *)
(***************************************************************************)

MaxWindowId == 2

WindowIds == 1..MaxWindowId

Topics == {"work", "news"}

\* the values of windowTopics: a topic for some of the windows
TopicMaps == UNION {[ws -> Topics] : ws \in SUBSET WindowIds}

\* {}
EmptyTopics == [w \in {} |-> "work"]

\* (await getStorage('windowTopics')) ?? {}
TopicsOrEmpty(value) == IF value = Undefined THEN EmptyTopics ELSE value[1]

\* topics[windowId] = topic
SetTopic(topics, windowId, topic) ==
    [w \in DOMAIN topics \cup {windowId} |-> IF w = windowId THEN topic ELSE topics[w]]

\* delete topics[windowId]
DeleteTopic(topics, windowId) == [w \in DOMAIN topics \ {windowId} |-> topics[w]]

\* the second line of saveWindowTopic and of removeWindowTopic
UpdateTopics(topics, call) ==
    IF call.op = "save" THEN SetTopic(topics, call.windowId, call.topic)
    ELSE DeleteTopic(topics, call.windowId)

\* the calls a caller can make
CallChoices ==
    [op : {"save"}, windowId : WindowIds, topic : Topics]
        \cup [op : {"remove"}, windowId : WindowIds, topic : {"work"}]

\* two calls for different windows have been made and none has read yet
InitStore ==
    /\ DupIdle
    /\ BatchIdle
    /\ RetryIdle
    /\ NormIdle
    /\ SimIdle
    /\ MatchIdle
    /\ PageIdle
    /\ stored \in {Undefined} \cup {<<m>> : m \in TopicMaps}
    /\ \E c1, c2 \in CallChoices :
          /\ c1.windowId # c2.windowId
          /\ calls = <<c1, c2>>
    /\ callPc = <<"getStorage", "getStorage">>
    /\ callTopics = <<EmptyTopics, EmptyTopics>>

\* the storage read of call i resolves: topics is what is stored now, and the
\* call updates its copy and asks for the write
GetStorage(i) ==
    /\ callPc[i] = "getStorage"
    /\ callTopics' = [callTopics EXCEPT ![i] = UpdateTopics(TopicsOrEmpty(stored), calls[i])]
    /\ callPc' = [callPc EXCEPT ![i] = "setStorage"]
    /\ UNCHANGED <<stored, calls, dupVars, batchVars, retryVars, normVars, simVars, matchVars, pageVars>>

\* the storage write of call i takes effect and the call returns
SetStorage(i) ==
    /\ callPc[i] = "setStorage"
    /\ stored' = <<callTopics[i]>>
    /\ callPc' = [callPc EXCEPT ![i] = "done"]
    /\ UNCHANGED <<calls, callTopics, dupVars, batchVars, retryVars, normVars, simVars, matchVars, pageVars>>

NextStore ==
    \/ \E i \in DOMAIN calls : GetStorage(i)
    \/ \E i \in DOMAIN calls : SetStorage(i)

SpecStore == InitStore /\ [][NextStore]_vars

(***************************************************************************)
(* Properties of the window topic helpers                                  *)
(***************************************************************************)

\* the map holds what the call asked for
Reflects(topics, call) ==
    IF call.op = "save"
    THEN call.windowId \in DOMAIN topics /\ topics[call.windowId] = call.topic
    ELSE call.windowId \notin DOMAIN topics

AllDone == calls # <<>> /\ \A i \in DOMAIN calls : callPc[i] = "done"

\* C28: once two concurrent calls of saveWindowTopic / removeWindowTopic for
\* different windows have both completed, whatever the order of their reads and
\* writes, the stored windowTopics map reflects both
C28_NoLostUpdate ==
    AllDone =>
        /\ stored # Undefined
        /\ \A i \in DOMAIN calls : Reflects(stored[1], calls[i])

(***************************************************************************)
(* normalizeUrl and findDuplicateTabs on two tabs whose URLs are spellings *)
(* of one address with their own scheme, credentials and port              *)
(***************************************************************************)

VariantSchemes == {"http", "https"}

\* no credentials, "u:p@"
VariantUsers == {"", "u:p"}

\* no port, the default port of http, another port, a port out of range
VariantPorts == {"", "80", "8080", "99999"}

\* //WWW.A.com/x/?utm_source=t&a=1#f and //a.com?a=1, still without a scheme
VariantBases ==
    {Str("", <<"WWW", "A", "com">>, <<"x", "">>, <<<<"utm_source", "t">>, <<"a", "1">>>>, "f"),
     Str("", <<"a", "com">>, <<>>, <<<<"a", "1">>>>, "")}

\* the address base spelled with a scheme, credentials and a port
Variant(base, scheme, userinfo, port) ==
    StrAuth(scheme, userinfo, base.host, port, base.path, base.query, base.hash)

InitVariant ==
    /\ BatchIdle
    /\ RetryIdle
    /\ SimIdle
    /\ LibIdle
    /\ \E base \in VariantBases, s1, s2 \in VariantSchemes, u1, u2 \in VariantUsers,
          p1, p2 \in VariantPorts :
          tabs = MkTabs(<<1, 2>>, <<Variant(base, s1, u1, p1), Variant(base, s2, u2, p2)>>,
                        <<FALSE, FALSE>>)
    /\ nOptions \in AllOptions
    /\ nUrl = Str("", <<>>, <<>>, <<>>, "")
    /\ nCalls = 0
    /\ normalized = <<>>
    /\ renormalized = <<>>
    /\ bookmarks = <<>>
    /\ phase = "idle"
    /\ groups = <<>>
    /\ threshold = <<4, 5>>
    /\ removed = FALSE
    /\ toRemove = <<>>
    /\ compared = <<>>

\* normalizeUrl(url, nOptions) of the URL of each tab
NormalizeTabs ==
    /\ nCalls = 0
    /\ tabs # <<>>
    /\ normalized' = [i \in 1..Len(tabs) |-> normalizeUrl(tabs[i].url, nOptions)]
    /\ nCalls' = 1
    /\ UNCHANGED <<nUrl, nOptions, renormalized, dupVars, batchVars, retryVars, simVars, matchVars, pageVars, storeVars>>

NextVariant ==
    \/ NormalizeTabs
    \/ FindDuplicateTabs

SpecVariant == InitVariant /\ [][NextVariant]_vars

(***************************************************************************)
(* Properties of normalizeUrl over scheme, credentials and port            *)
(***************************************************************************)

\* an http(s) URL: it has a host, and a port in range if it has one
IsHttpUrl(u) ==
    /\ u.scheme \in {"http", "https"}
    /\ u.host # <<>>
    /\ u.port \in {"", "80", "443", "8080"}

\* two http(s) URLs that differ at most in scheme, credentials and port
SameButOrigin(u1, u2) ==
    /\ IsHttpUrl(u1)
    /\ IsHttpUrl(u2)
    /\ u1.host = u2.host
    /\ u1.path = u2.path
    /\ u1.query = u2.query
    /\ u1.hash = u2.hash

\* C29: under every setting of the options normalizeUrl gives two http(s) URLs
\* that differ only in scheme, credentials and port the same result, which
\* starts with https:// when stripProtocol is off and never holds credentials or
\* a port; findDuplicateTabs puts two such tabs into one group
C29_SchemePortCredentialsIgnored ==
    (Len(tabs) = 2 /\ SameButOrigin(tabs[1].url, tabs[2].url)) =>
        /\ nCalls = 1 =>
              /\ normalized[1] = normalized[2]
              /\ normalized[1].userinfo = "" /\ normalized[1].port = ""
              /\ normalized[1].scheme = IF Toggle("stripProtocol") THEN "" ELSE "https"
        /\ phase = "exact" =>
              /\ Len(groups) = 1
              /\ groups[1].tabs = <<tabs[1], tabs[2]>>

\* http://a.com:8080?a=1 and https://u:p@a.com?a=1 with stripProtocol off, both
\* normalized and scanned
C29_Witness ==
    /\ Len(tabs) = 2
    /\ tabs[1].url = StrAuth("http", "", <<"a", "com">>, "8080", <<>>, <<<<"a", "1">>>>, "")
    /\ tabs[2].url = StrAuth("https", "u:p", <<"a", "com">>, "", <<>>, <<<<"a", "1">>>>, "")
    /\ ~Toggle("stripProtocol")
    /\ nCalls = 1
    /\ normalized[1] = normalized[2]
    /\ normalized[1].scheme = "https"
    /\ phase = "exact"
    /\ Len(groups) = 1

=============================================================================
